---- MODULE Spec2Model ----
(***************************************************************************)
(* Model of practicelife-api: the pattern router (src/lib/router.js), the  *)
(* HTTP probe and the fleet handlers (src/routes/fleet.js), the agent      *)
(* health fusion (src/routes/agent-lifecycle.js) and the request listener  *)
(* (src/server.js).                                                        *)
(*                                                                         *)
(* Strings are sequences of one-character strings, so that split, slice,   *)
(* includes and decodeURIComponent are computed as the code computes them. *)
(***************************************************************************)
EXTENDS Integers, Sequences, FiniteSets, TLC

VARIABLES
    routes,      \* Router.routes: sequence of [method, pattern, handler]
    rphase,      \* "startup" while routes are registered, then "serving"
    lastMatch,   \* the last Router.match call: [called, method, url, result]
    endpoint,    \* the fleet route being served: "none", "fleet" or "anvil"
    hpc,         \* its handler: "idle", "calling", "await", "joined", "resumed"
    issued,      \* number of probe(...) calls the handler has made
    probes,      \* per probe: connection phase, body received, promise, result
    sshCalls,    \* number of getAnvilSystem() calls of the request being served
    protocolRows,  \* rows of the Active Agents table of agent-protocol.md
    logFiles,      \* the .md files of the session-logs directory, readdir order
    apc,           \* getAgentHealth: "setup" (not called), "seed", "enrich", "done"
    sessionAgents, \* what getActiveAgentSessions returned
    healthMap,     \* the Map, as its [key, val] pairs in insertion order
    cursor,        \* index of the next element of the running forEach
    health,        \* the value getAgentHealth returned
    runs,          \* number of getAgentHealth calls that have returned
    prev,          \* the value the call before the last one returned
    sreq,          \* the request the listener was called with
    spc,           \* the listener: "idle", "answered", or "crashed" (process ended)
    answer,        \* what was written to res: [status, body]
    fsRead,        \* whether the handler touched the filesystem for the request
    hpromise,      \* the promise an async handler returned: "none", "pending", ...
    unhandled,     \* a promise was rejected with nobody handling the rejection
    bpc,           \* the async fleet handler: "idle", "probing", "listing", ...
    probeRes,      \* the array Promise.all resolved with, by binding name
    sshInfo,       \* what run('ssh ... anvil ...') returned (<<>>: null or '')
    anvilSystem,   \* let anvilSystem
    anvilModels,   \* let anvilModels
    localModels,   \* let localModels
    litellmModels, \* let litellmModels / const models
    tailscaleStatus, \* const tailscaleStatus, as the document it holds
    handlerValue   \* the value the async handler returned

routerVars == <<routes, rphase, lastMatch>>

fleetVars == <<endpoint, hpc, issued, probes, sshCalls>>

healthVars == <<protocolRows, logFiles, apc, sessionAgents, healthMap, cursor, health,
                runs, prev>>

serverVars == <<sreq, spc, answer, fsRead, hpromise, unhandled>>

builderVars == <<bpc, probeRes, sshInfo, anvilSystem, anvilModels, localModels,
                 litellmModels, tailscaleStatus, handlerValue>>

vars == <<routes, rphase, lastMatch, endpoint, hpc, issued, probes, sshCalls,
          protocolRows, logFiles, apc, sessionAgents, healthMap, cursor, health,
          runs, prev, sreq, spc, answer, fsRead, hpromise, unhandled,
          bpc, probeRes, sshInfo, anvilSystem, anvilModels, localModels,
          litellmModels, tailscaleStatus, handlerValue>>

-----------------------------------------------------------------------------
(* Bounds of the router model *)

\* Largest number of routes registered before the server listens.
MaxRoutes == 2

\* Largest number of path segments of a request target.
MaxSegs == 2

\* Largest number of 'data' events that deliver one response body.
MaxChunks == 2

\* Largest number of rows of the protocol table, and of session-log files.
MaxRows == 2
MaxLogs == 2

\* Largest number of times GET /api/agents/health is served.
MaxRuns == 2

-----------------------------------------------------------------------------
(* String helpers: the JavaScript built-ins the router calls *)

\* String.prototype.split(sep) for a one-character separator.
RECURSIVE Split(_, _)
Split(s, sep) ==
    IF \A i \in 1..Len(s) : s[i] # sep
    THEN <<s>>
    ELSE LET k == CHOOSE i \in 1..Len(s) :
                      s[i] = sep /\ \A j \in 1..(i - 1) : s[j] # sep
         IN  <<SubSeq(s, 1, k - 1)>> \o Split(SubSeq(s, k + 1, Len(s)), sep)

\* Array.prototype.join(sep), the inverse used to rebuild a pathname.
RECURSIVE Join(_, _)
Join(parts, sep) ==
    IF Len(parts) = 0 THEN <<>>
    ELSE IF Len(parts) = 1 THEN parts[1]
    ELSE parts[1] \o <<sep>> \o Join(Tail(parts), sep)

\* String.prototype.startsWith for a one-character prefix.
StartsWithChar(s, c) == Len(s) >= 1 /\ s[1] = c

HexDigits == {"0", "1", "2", "3", "4", "5", "6", "7", "8", "9",
              "a", "b", "c", "d", "e", "f", "A", "B", "C", "D", "E", "F"}

HexVal(c) ==
    CASE c = "0" -> 0  [] c = "1" -> 1  [] c = "2" -> 2  [] c = "3" -> 3
      [] c = "4" -> 4  [] c = "5" -> 5  [] c = "6" -> 6  [] c = "7" -> 7
      [] c = "8" -> 8  [] c = "9" -> 9
      [] c \in {"a", "A"} -> 10 [] c \in {"b", "B"} -> 11
      [] c \in {"c", "C"} -> 12 [] c \in {"d", "D"} -> 13
      [] c \in {"e", "E"} -> 14 [] c \in {"f", "F"} -> 15

\* The printable ASCII characters, code 32 (space) first; the double quote,
\* the backslash and the backtick are written by name.
AsciiPrintable ==
    <<" ", "!", "<dq>", "#", "$", "%", "&", "'", "(", ")", "*", "+", ",", "-", ".", "/",
      "0", "1", "2", "3", "4", "5", "6", "7", "8", "9", ":", ";", "<", "=", ">", "?",
      "@", "A", "B", "C", "D", "E", "F", "G", "H", "I", "J", "K", "L", "M", "N", "O",
      "P", "Q", "R", "S", "T", "U", "V", "W", "X", "Y", "Z", "[", "<bs>", "]", "^", "_",
      "<bt>", "a", "b", "c", "d", "e", "f", "g", "h", "i", "j", "k", "l", "m", "n", "o",
      "p", "q", "r", "s", "t", "u", "v", "w", "x", "y", "z", "{", "|", "}", "~">>

\* The character of a byte below 128; control characters are kept apart
\* from every printable one.
CharOfCode(n) ==
    IF n >= 32 /\ n <= 126 THEN AsciiPrintable[n - 31] ELSE "<ctl>"

\* decodeURIComponent: every "%XY" becomes the character with code 0xXY; a
\* "%" not followed by two hex digits, or a byte >= 0x80 that starts no
\* complete UTF-8 sequence, throws URIError.  The result is
\* [ok |-> TRUE, val |-> decoded] or [ok |-> FALSE, val |-> <<>>] (thrown).
RECURSIVE decodeURIComponent(_)
decodeURIComponent(s) ==
    IF Len(s) = 0 THEN [ok |-> TRUE, val |-> <<>>]
    ELSE IF s[1] # "%"
         THEN LET rest == decodeURIComponent(Tail(s))
              IN  IF rest.ok THEN [ok |-> TRUE, val |-> <<s[1]>> \o rest.val]
                  ELSE rest
    ELSE IF Len(s) < 3 \/ s[2] \notin HexDigits \/ s[3] \notin HexDigits
         THEN [ok |-> FALSE, val |-> <<>>]
    ELSE LET code == 16 * HexVal(s[2]) + HexVal(s[3])
             rest == decodeURIComponent(SubSeq(s, 4, Len(s)))
         IN  IF code >= 128 THEN [ok |-> FALSE, val |-> <<>>]
             ELSE IF rest.ok
                  THEN [ok |-> TRUE, val |-> <<CharOfCode(code)>> \o rest.val]
                  ELSE rest

-----------------------------------------------------------------------------
(* new URL(url, base).pathname with base http://localhost, for origin-form *)
(* targets (a single leading slash): the query and the fragment are cut,   *)
(* dot segments are removed, percent-escapes are left as written.          *)

\* The part of s before the first character in stops.
RECURSIVE Before(_, _)
Before(s, stops) ==
    IF Len(s) = 0 \/ s[1] \in stops THEN <<>>
    ELSE <<s[1]>> \o Before(Tail(s), stops)

\* Lower-cases the hex letters that can spell an escaped dot.
LowerDot(seg) == [i \in 1..Len(seg) |-> IF seg[i] = "E" THEN "e" ELSE seg[i]]

IsSingleDot(seg) == LowerDot(seg) \in {<<".">>, <<"%", "2", "e">>}

IsDoubleDot(seg) ==
    LowerDot(seg) \in {<<".", ".">>, <<".", "%", "2", "e">>,
                       <<"%", "2", "e", ".">>, <<"%", "2", "e", "%", "2", "e">>}

\* The URL path state: out is the path built so far, segs the segments left.
RECURSIVE RemoveDots(_, _)
RemoveDots(segs, out) ==
    IF Len(segs) = 0 THEN out
    ELSE LET seg == segs[1]
             last == Len(segs) = 1
             shorter == IF Len(out) > 0 THEN SubSeq(out, 1, Len(out) - 1) ELSE out
         IN  IF IsDoubleDot(seg)
             THEN RemoveDots(Tail(segs), IF last THEN Append(shorter, <<>>) ELSE shorter)
             ELSE IF IsSingleDot(seg)
             THEN RemoveDots(Tail(segs), IF last THEN Append(out, <<>>) ELSE out)
             ELSE RemoveDots(Tail(segs), Append(out, seg))

Pathname(url) ==
    LET path == Before(url, {"?", "#"})
        segs == Tail(Split(path, "/"))
        kept == RemoveDots(segs, <<>>)
    IN  <<"/">> \o Join(kept, "/")

-----------------------------------------------------------------------------
(* src/lib/router.js *)

\* Results of matchPattern and Router.match: a thrown error, null, or a
\* match carrying the handler and the params object.
Thrown == [kind |-> "throw", handler |-> 0, params |-> <<>>]
Null == [kind |-> "null", handler |-> 0, params |-> <<>>]
Matched(h, p) == [kind |-> "match", handler |-> h, params |-> p]

\* matchPattern storing the path segment as written, without decoding it.
RECURSIVE MatchFrom_NoDecode(_, _, _, _)
MatchFrom_NoDecode(patternParts, pathParts, i, params) ==
    IF i > Len(patternParts) THEN Matched(0, params)
    ELSE IF StartsWithChar(patternParts[i], ":")
         THEN MatchFrom_NoDecode(patternParts, pathParts, i + 1,
                                 (Tail(patternParts[i]) :> pathParts[i]) @@ params)
    ELSE IF patternParts[i] # pathParts[i] THEN Null
    ELSE MatchFrom_NoDecode(patternParts, pathParts, i + 1, params)

\* The loop of matchPattern from index i on, params being the object so far.
RECURSIVE MatchFrom(_, _, _, _)
MatchFrom(patternParts, pathParts, i, params) ==
    IF i > Len(patternParts) THEN Matched(0, params)
    ELSE IF StartsWithChar(patternParts[i], ":")
         THEN LET d == decodeURIComponent(pathParts[i])
              IN  IF ~d.ok THEN Thrown
                  ELSE MatchFrom(patternParts, pathParts, i + 1,
                                 (Tail(patternParts[i]) :> d.val) @@ params)
    ELSE IF patternParts[i] # pathParts[i] THEN Null
    ELSE MatchFrom(patternParts, pathParts, i + 1, params)

matchPattern(pattern, pathname) ==
    LET patternParts == Split(pattern, "/")
        pathParts == Split(pathname, "/")
    IN  IF Len(patternParts) # Len(pathParts) THEN Null
        ELSE MatchFrom(patternParts, pathParts, 1, <<>>)

\* The loop of Router.match over the routes from index k on.
RECURSIVE MatchRoutes(_, _, _, _)
MatchRoutes(table, method, pathname, k) ==
    IF k > Len(table) THEN Null
    ELSE IF table[k].method # method
         THEN MatchRoutes(table, method, pathname, k + 1)
    ELSE LET params == matchPattern(table[k].pattern, pathname)
         IN  IF params.kind = "throw" THEN Thrown
             ELSE IF params.kind = "match"
                  THEN Matched(table[k].handler, params.params)
             ELSE MatchRoutes(table, method, pathname, k + 1)

RouterMatch(table, method, url) == MatchRoutes(table, method, Pathname(url), 1)

-----------------------------------------------------------------------------
(* Inputs of the router model *)

Methods == {"GET", "POST"}

\* Route patterns shaped like the registered ones: literal paths, a
\* trailing placeholder (/api/atlas/assets/:id), and a catch-all pair.
Patterns ==
    { <<"/", "a">>,
      <<"/", "a", "/", "b">>,
      <<"/", "a", "/", ":", "i">>,
      <<"/", ":", "x", "/", ":", "y">> }

\* The POST routes of the program are literal paths.
PostPatterns == { p \in Patterns : \A i \in 1..Len(p) : p[i] # ":" }

\* Path segments a client can send: plain, upper case, an escaped "a", a
\* malformed escape, an empty segment and a parent directory.
SegChoices ==
    { <<"a">>, <<"b">>, <<"A">>, <<"%", "6", "1">>, <<"%">>, <<>>, <<".", ".">> }

\* Paths "/s1/.../sn" with 1..n segments; the first is not empty, since an
\* origin-form target starts with a single "/".
RECURSIVE PathsOfLen(_)
PathsOfLen(n) ==
    IF n = 1 THEN { <<"/">> \o s : s \in SegChoices \ {<<>>} }
    ELSE { p \o <<"/">> \o s : p \in PathsOfLen(n - 1), s \in SegChoices }

Paths == UNION { PathsOfLen(n) : n \in 1..MaxSegs }

\* Request targets: a path, or a one-segment path followed by a query that
\* holds a "/".
Urls == Paths \cup { p \o <<"?", "q", "=", "/", "a">> : p \in PathsOfLen(1) }

NoMatch == [called |-> FALSE, method |-> "GET", url |-> <<"/">>, result |-> Null]

-----------------------------------------------------------------------------
(* Router actions *)

\* Router.get(pattern, handler): the handler is identified by its position.
RouterGet(pattern) ==
    /\ rphase = "startup"
    /\ Len(routes) < MaxRoutes
    /\ routes' = Append(routes, [method |-> "GET", pattern |-> pattern,
                                 handler |-> Len(routes) + 1])
    /\ UNCHANGED <<rphase, lastMatch, fleetVars, healthVars, serverVars, builderVars>>

\* Router.post(pattern, handler).
RouterPost(pattern) ==
    /\ rphase = "startup"
    /\ Len(routes) < MaxRoutes
    /\ routes' = Append(routes, [method |-> "POST", pattern |-> pattern,
                                 handler |-> Len(routes) + 1])
    /\ UNCHANGED <<rphase, lastMatch, fleetVars, healthVars, serverVars, builderVars>>

\* server.listen: registration is over.
Listen ==
    /\ rphase = "startup"
    /\ rphase' = "serving"
    /\ UNCHANGED <<routes, lastMatch, fleetVars, healthVars, serverVars, builderVars>>

\* A match that moves the route it returns to the front of the table.
Match_MovesToFront(method, url) ==
    LET result == RouterMatch(routes, method, url)
        hit == { k \in 1..Len(routes) : routes[k].handler = result.handler }
        IsHit(r) == r.handler = result.handler
        IsMiss(r) == r.handler # result.handler
    IN  /\ rphase = "serving"
        /\ ~lastMatch.called
        /\ lastMatch' = [called |-> TRUE, method |-> method, url |-> url,
                         result |-> result]
        /\ routes' = IF result.kind = "match" /\ hit # {}
                      THEN SelectSeq(routes, IsHit) \o SelectSeq(routes, IsMiss)
                      ELSE routes
        /\ UNCHANGED <<rphase, fleetVars, healthVars, serverVars, builderVars>>

\* The request listener up to router.match(req.method, req.url); requests
\* are handled one at a time (a single thread, the call is synchronous).
Match(method, url) ==
    /\ rphase = "serving"
    /\ ~lastMatch.called
    /\ lastMatch' = [called |-> TRUE, method |-> method, url |-> url,
                     result |-> RouterMatch(routes, method, url)]
    /\ UNCHANGED <<routes, rphase, fleetVars, healthVars, serverVars, builderVars>>

\* The rest of the request listener: 404 for null, the handler's answer for
\* a match; then the next request can come.
Respond ==
    /\ rphase = "serving"
    /\ lastMatch.called
    /\ lastMatch.result.kind # "throw"
    /\ lastMatch' = NoMatch
    /\ UNCHANGED <<routes, rphase, fleetVars, healthVars, serverVars, builderVars>>

\* router.match is called outside the listener's try block: an error it
\* throws is an uncaught exception, which ends the process.
Crash ==
    /\ rphase = "serving"
    /\ lastMatch.called
    /\ lastMatch.result.kind = "throw"
    /\ rphase' = "crashed"
    /\ UNCHANGED <<routes, lastMatch, fleetVars, healthVars, serverVars, builderVars>>

RouterInit ==
    /\ routes = <<>>
    /\ rphase = "startup"
    /\ lastMatch = NoMatch

RouterNext ==
    \/ \E p \in Patterns : RouterGet(p)
    \/ \E p \in PostPatterns : RouterPost(p)
    \/ Listen
    \/ \E m \in Methods, u \in Urls : Match(m, u)
    \/ Respond
    \/ Crash

-----------------------------------------------------------------------------
(* src/routes/fleet.js: probe *)

\* probe's default timeout (ms) and the length the raw body is cut to.
ProbeTimeoutMs == 3000
RawLimit == 500

Min(a, b) == IF a < b THEN a ELSE b

\* The probes of GET /api/fleet in the order of the array literal, by the
\* name the result is bound to; GET /api/fleet/anvil makes the first alone.
FleetProbes == <<"anvilOllama", "anvilOllamaTs", "litellm", "localOllama">>
AnvilProbes == <<"anvilOllama">>
ProbeNames == { FleetProbes[k] : k \in 1..Len(FleetProbes) }

ProbesOf(ep) == IF ep = "fleet" THEN FleetProbes ELSE AnvilProbes

\* Responses a target can send: status, body length, and the document the
\* body parses to ("" when the body is not valid JSON).
Payloads ==
    << [status |-> 200, len |-> 2,   doc |-> "tags"],
       [status |-> 502, len |-> 620, doc |-> ""],
       [status |-> 404, len |-> 9,   doc |-> ""] >>

\* Values of Date.now() - start a handler can read (ms), and those it can
\* read when the idle timer fires: at the timeout, or later when earlier
\* response bytes restarted the timer.
ElapsedChoices == {7, 2950}
TimeoutElapsedChoices == {ProbeTimeoutMs + 2, ProbeTimeoutMs + 1400}

\* A promise that is still pending holds no value.
Pending == [pending |-> TRUE]

\* phase: "none" (probe not called), "open" (request sent), "resp" (response
\* callback ran, body streaming), "closed".  res: index of the response in
\* Payloads; got: length of body; ended: the event that closed the
\* connection; errQueued: an 'error' event that a destroy has scheduled;
\* calls: how many times probe was called for the target in this request;
\* late: a listener ran after the promise was settled.
NoProbe ==
    [phase |-> "none", res |-> 0, got |-> 0, ended |-> "", errQueued |-> FALSE,
     settled |-> FALSE, result |-> Pending, calls |-> 0, late |-> FALSE]

\* A resolve that lets every call replace the value of the promise.
Resolve_LastWins(p, value) == [p EXCEPT !.settled = TRUE, !.result = value]

\* resolve(value) of the promise executor: only the first call settles.
Resolve(p, value) ==
    IF p.settled THEN p ELSE [p EXCEPT !.settled = TRUE, !.result = value]

\* JSON.parse(body): the document, or a SyntaxError.
JsonParse(body) ==
    LET pl == Payloads[body.res]
    IN  IF pl.doc # "" /\ body.len = pl.len
        THEN [ok |-> TRUE, doc |-> pl.doc]
        ELSE [ok |-> FALSE, doc |-> ""]

\* body.slice(0, n): the first n characters of the body text.
Slice(body, n) == [res |-> body.res, len |-> Min(body.len, n)]

\* An 'end' listener that reports a body it cannot parse as a failure.
EndResult_ParseErrorFails(body, statusCode, latencyMs) ==
    LET parsed == JsonParse(body)
    IN  IF parsed.ok
        THEN [ok |-> TRUE, latencyMs |-> latencyMs, status |-> statusCode,
              data |-> [raw |-> FALSE, doc |-> parsed.doc, text |-> Slice(body, 0)]]
        ELSE [ok |-> FALSE, latencyMs |-> latencyMs]

\* The value the 'end' listener resolves with (try JSON.parse, catch raw).
EndResult(body, statusCode, latencyMs) ==
    LET parsed == JsonParse(body)
    IN  IF parsed.ok
        THEN [ok |-> TRUE, latencyMs |-> latencyMs, status |-> statusCode,
              data |-> [raw |-> FALSE, doc |-> parsed.doc, text |-> Slice(body, 0)]]
        ELSE [ok |-> TRUE, latencyMs |-> latencyMs, status |-> statusCode,
              data |-> [raw |-> TRUE, doc |-> "", text |-> Slice(body, RawLimit)]]

\* The value the request 'error' listener resolves with.
ErrorResult(latencyMs) == [ok |-> FALSE, latencyMs |-> latencyMs]

\* A 'timeout' listener that forgets the timeout flag.
TimeoutResult_NoFlag(timeout, elapsed) == [ok |-> FALSE, latencyMs |-> timeout]

\* A 'timeout' listener that reports the measured time like the others.
TimeoutResult_Measured(timeout, elapsed) ==
    [ok |-> FALSE, latencyMs |-> elapsed, timeout |-> TRUE]

\* The value the 'timeout' listener resolves with; elapsed is what
\* Date.now() - start would read there.
TimeoutResult(timeout, elapsed) ==
    [ok |-> FALSE, latencyMs |-> timeout, timeout |-> TRUE]

\* Number of characters one 'data' event appends to a body of length len.
ChunkSize(len) == (len + MaxChunks - 1) \div MaxChunks

\* JavaScript runs to completion: listeners run only while no handler code
\* is on the stack.
EventLoopFree == hpc # "calling"

\* A handler that awaits each probe before it makes the next.
AwaitAfter_Each(k, n) == TRUE

\* The handler suspends at its await once every probe of the array is made.
AwaitAfter(k, n) == k = n

-----------------------------------------------------------------------------
(* The fleet handlers up to their await *)

\* A handler that keeps the results of the request before.
StartRequest_KeepsResults(ep) ==
    /\ hpc = "idle"
    /\ endpoint' = ep
    /\ hpc' = "calling"
    /\ issued' = 0
    /\ sshCalls' = 0
    /\ probes' = [t \in ProbeNames |->
                     IF probes[t].settled /\ probes[t].result.ok THEN probes[t]
                     ELSE NoProbe]
    /\ UNCHANGED <<routerVars, healthVars, serverVars, builderVars>>

\* The request listener calls the handler of /api/fleet or /api/fleet/anvil:
\* the promises and the values of a request are local to the call.
StartRequest(ep) ==
    /\ hpc = "idle"
    /\ endpoint' = ep
    /\ hpc' = "calling"
    /\ issued' = 0
    /\ sshCalls' = 0
    /\ probes' = [t \in ProbeNames |-> NoProbe]
    /\ UNCHANGED <<routerVars, healthVars, serverVars, builderVars>>

\* One probe(host, port, path) call: http.get sends the request and the
\* listeners are attached; the promise is returned pending.
probe(t) ==
    /\ hpc = "calling"
    /\ issued < Len(ProbesOf(endpoint))
    /\ t = ProbesOf(endpoint)[issued + 1]
    /\ probes' = [probes EXCEPT ![t] = [NoProbe EXCEPT !.phase = "open",
                                                        !.calls = probes[t].calls + 1]]
    /\ issued' = issued + 1
    /\ hpc' = IF AwaitAfter(issued + 1, Len(ProbesOf(endpoint)))
              THEN "await" ELSE "calling"
    /\ UNCHANGED <<endpoint, sshCalls, routerVars, healthVars, serverVars, builderVars>>

\* await Promise.all([...]) / await probe(...): the handler resumes when
\* every promise it awaits is settled.
AwaitAll ==
    /\ hpc = "await"
    /\ \A k \in 1..Len(ProbesOf(endpoint)) : probes[ProbesOf(endpoint)[k]].settled
    /\ hpc' = "joined"
    /\ UNCHANGED <<endpoint, issued, probes, sshCalls, routerVars, healthVars, serverVars,
                   builderVars>>

\* A handler that inspects Anvil over SSH whatever its probe returned.
ResumeHandler_AlwaysInspects ==
    /\ hpc = "joined"
    /\ hpc' = "resumed"
    /\ sshCalls' = IF endpoint = "fleet" THEN sshCalls + 1 ELSE sshCalls
    /\ UNCHANGED <<endpoint, issued, probes, routerVars, healthVars, serverVars,
                   builderVars>>

\* The handler resumes after its await and runs to its next await or to its
\* return: GET /api/fleet calls getAnvilSystem() if anvilOllama.ok (lines
\* 102-106), GET /api/fleet/anvil makes no remote call.
ResumeHandler ==
    /\ hpc = "joined"
    /\ hpc' = "resumed"
    /\ sshCalls' = IF endpoint = "fleet" /\ probes["anvilOllama"].result.ok
                    THEN sshCalls + 1 ELSE sshCalls
    /\ UNCHANGED <<endpoint, issued, probes, routerVars, healthVars, serverVars,
                   builderVars>>

\* The handler returns; the next request can be served.
ReturnHandler ==
    /\ hpc = "resumed"
    /\ hpc' = "idle"
    /\ UNCHANGED <<endpoint, issued, probes, sshCalls, routerVars, healthVars,
                   serverVars, builderVars>>

-----------------------------------------------------------------------------
(* Events of one probe's request, delivered by the event loop *)

\* The response callback: headers arrived, body = ''.
OnResponse(t, r) ==
    /\ EventLoopFree
    /\ probes[t].phase = "open"
    /\ probes' = [probes EXCEPT ![t] = [@ EXCEPT !.phase = "resp", !.res = r, !.got = 0]]
    /\ UNCHANGED <<endpoint, hpc, issued, sshCalls, routerVars, healthVars, serverVars, builderVars>>

\* res 'data': body += d.
OnData(t) ==
    /\ EventLoopFree
    /\ probes[t].phase = "resp"
    /\ probes[t].got < Payloads[probes[t].res].len
    /\ probes' = [probes EXCEPT ![t].got =
                     Min(@ + ChunkSize(Payloads[probes[t].res].len),
                         Payloads[probes[t].res].len)]
    /\ UNCHANGED <<endpoint, hpc, issued, sshCalls, routerVars, healthVars, serverVars, builderVars>>

\* res 'end': the whole body arrived.
OnEnd(t, elapsed) ==
    /\ EventLoopFree
    /\ probes[t].phase = "resp"
    /\ probes[t].got = Payloads[probes[t].res].len
    /\ probes' = [probes EXCEPT ![t] =
          Resolve([@ EXCEPT !.phase = "closed", !.ended = "end", !.got = 0],
                  EndResult([res |-> probes[t].res, len |-> probes[t].got],
                            Payloads[probes[t].res].status, elapsed))]
    /\ UNCHANGED <<endpoint, hpc, issued, sshCalls, routerVars, healthVars, serverVars, builderVars>>

\* req 'error': the connection was refused or reset, before or during the
\* response.
OnError(t, elapsed) ==
    /\ EventLoopFree
    /\ probes[t].phase \in {"open", "resp"}
    /\ probes' = [probes EXCEPT ![t] =
          Resolve([@ EXCEPT !.phase = "closed", !.ended = "error", !.res = 0, !.got = 0],
                  ErrorResult(elapsed))]
    /\ UNCHANGED <<endpoint, hpc, issued, sshCalls, routerVars, healthVars, serverVars, builderVars>>

\* A 'timeout' listener that destroys the request of every probe in flight.
OnTimeout_DestroysAll(t, elapsed) ==
    /\ EventLoopFree
    /\ probes[t].phase \in {"open", "resp"}
    /\ probes' = [u \in ProbeNames |->
          IF u = t
          THEN Resolve([probes[u] EXCEPT !.phase = "closed", !.ended = "timeout",
                                         !.res = 0, !.got = 0],
                       TimeoutResult(ProbeTimeoutMs, elapsed))
          ELSE IF probes[u].phase \in {"open", "resp"}
               THEN [probes[u] EXCEPT !.phase = "closed", !.ended = "aborted",
                                      !.res = 0, !.got = 0]
               ELSE probes[u]]
    /\ UNCHANGED <<endpoint, hpc, issued, sshCalls, routerVars, healthVars, serverVars, builderVars>>

\* req 'timeout': the socket was idle for the timeout; the listener destroys
\* its request and resolves.  Destroying a request that has no response yet
\* schedules an 'error' event (socket hang up) on it.
OnTimeout(t, elapsed) ==
    /\ EventLoopFree
    /\ probes[t].phase \in {"open", "resp"}
    /\ probes' = [probes EXCEPT ![t] =
          Resolve([@ EXCEPT !.phase = "closed", !.ended = "timeout", !.res = 0, !.got = 0,
                            !.errQueued = (probes[t].phase = "open")],
                  TimeoutResult(ProbeTimeoutMs, elapsed))]
    /\ UNCHANGED <<endpoint, hpc, issued, sshCalls, routerVars, healthVars, serverVars, builderVars>>

\* The 'error' event scheduled by req.destroy() reaches the 'error' listener.
OnDestroyError(t, elapsed) ==
    /\ EventLoopFree
    /\ probes[t].errQueued
    /\ probes' = [probes EXCEPT ![t] =
          Resolve([@ EXCEPT !.errQueued = FALSE, !.late = @ \/ probes[t].settled],
                  ErrorResult(elapsed))]
    /\ UNCHANGED <<endpoint, hpc, issued, sshCalls, routerVars, healthVars, serverVars, builderVars>>

\* The peer closes the connection before the body is complete: the response
\* emits 'aborted' and 'close', for which probe has no listener; 'end' and
\* the request's 'error' and 'timeout' are not emitted.
OnAborted(t) ==
    /\ EventLoopFree
    /\ probes[t].phase = "resp"
    /\ probes[t].got < Payloads[probes[t].res].len
    /\ probes' = [probes EXCEPT ![t] =
          [@ EXCEPT !.phase = "closed", !.ended = "aborted", !.res = 0, !.got = 0]]
    /\ UNCHANGED <<endpoint, hpc, issued, sshCalls, routerVars, healthVars, serverVars, builderVars>>

FleetIdle ==
    /\ endpoint = "none"
    /\ hpc = "idle"
    /\ issued = 0
    /\ probes = [t \in ProbeNames |-> NoProbe]
    /\ sshCalls = 0

FleetNext ==
    \/ \E ep \in {"fleet", "anvil"} : StartRequest(ep)
    \/ \E t \in ProbeNames : probe(t)
    \/ AwaitAll
    \/ ResumeHandler
    \/ ReturnHandler
    \/ \E t \in ProbeNames, r \in 1..Len(Payloads) : OnResponse(t, r)
    \/ \E t \in ProbeNames : OnData(t)
    \/ \E t \in ProbeNames, e \in ElapsedChoices : OnEnd(t, e)
    \/ \E t \in ProbeNames, e \in ElapsedChoices : OnError(t, e)
    \/ \E t \in ProbeNames, e \in TimeoutElapsedChoices : OnTimeout(t, e)
    \/ \E t \in ProbeNames, e \in TimeoutElapsedChoices : OnDestroyError(t, e)
    \/ \E t \in ProbeNames : OnAborted(t)

-----------------------------------------------------------------------------
(* src/routes/agent-lifecycle.js: getActiveAgentSessions, getAgentHealth *)

\* A log updated less than this many ms ago counts as recently active.
RecencyMs == 3600000

\* Date.now() when the logs are read (ms on the clock of the mtimes).
NowMs == 6000000

\* String.prototype.includes: sub occurs in str as a contiguous run.
Includes(str, sub) ==
    \E i \in 0..(Len(str) - Len(sub)) : SubSeq(str, i + 1, i + Len(sub)) = sub

\* A falsy number is 0 (ageMs is never NaN).
Truthy(n) == n # 0

\* Agent names, as sequences of symbols.
ProtocolNames == { <<"Watcher">>, <<"Watcher", "-session">> }
SessionNames == { <<"Watcher", "-session">>, <<"Nova">> }
ProtocolStatuses == {"Active", "Parked"}
SessionStatuses == {"Active", "Unknown"}

\* Modification times of log files: now, two minutes ago, an hour ago.
MTimes == {NowMs, NowMs - 120000, NowMs - RecencyMs}

\* The record getActiveAgentSessions builds of one log file (model and
\* focus are copied like status and are left out).
SessionRecord(f) ==
    [logFile |-> f.logFile, agentName |-> f.agentName, status |-> f.status,
     lastModified |-> f.mtime, ageMs |-> NowMs - f.mtime,
     isRecentlyActive |-> (NowMs - f.mtime) < RecencyMs]

\* One step of the stable sort: x goes behind every record that compares
\* before it or equal to it under (a, b) => b.lastModified.localeCompare(a.lastModified).
RECURSIVE InsertByLastModified(_, _)
InsertByLastModified(sorted, x) ==
    IF Len(sorted) = 0 THEN <<x>>
    ELSE IF Head(sorted).lastModified >= x.lastModified
         THEN <<Head(sorted)>> \o InsertByLastModified(Tail(sorted), x)
         ELSE <<x>> \o sorted

RECURSIVE SortByLastModified(_)
SortByLastModified(recs) ==
    IF Len(recs) = 0 THEN <<>>
    ELSE InsertByLastModified(SortByLastModified(SubSeq(recs, 1, Len(recs) - 1)),
                              recs[Len(recs)])

getActiveAgentSessions ==
    SortByLastModified([i \in 1..Len(logFiles) |-> SessionRecord(logFiles[i])])

\* A filter that lets every session record through.
IsRecent_Any(sess) == TRUE

\* sessionAgents.filter(s => s.isRecentlyActive)
IsRecent(sess) == sess.isRecentlyActive
RecentSessions == SelectSeq(sessionAgents, IsRecent)

\* A set that appends a pair whether or not the key is present.
MapSet_Append(map, key, val) == Append(map, [key |-> key, val |-> val])

\* Map.prototype.set: the value of an existing key is replaced in place, a
\* new key is appended.
MapSet(map, key, val) ==
    IF \E i \in 1..Len(map) : map[i].key = key
    THEN [i \in 1..Len(map) |-> IF map[i].key = key
                                THEN [key |-> key, val |-> val] ELSE map[i]]
    ELSE Append(map, [key |-> key, val |-> val])

\* The entry seeded from a protocol row.
ProtocolEntry(agent) ==
    [name |-> agent.name, id |-> agent.id, status |-> agent.status,
     source |-> "protocol", protocolStatus |-> agent.status]

\* An entry that takes the status of the log as its protocol status.
SessionEntry_StatusAsProtocol(sess) ==
    [name |-> sess.agentName, status |-> sess.status,
     lastActivity |-> sess.lastModified, sessionLog |-> sess.logFile,
     ageMs |-> sess.ageMs, source |-> "session-log", protocolStatus |-> sess.status]

\* The entry created from a session log that matched nothing.
SessionEntry(sess) ==
    [name |-> sess.agentName, status |-> sess.status,
     lastActivity |-> sess.lastModified, sessionLog |-> sess.logFile,
     ageMs |-> sess.ageMs, source |-> "session-log", protocolStatus |-> "null"]

\* A find predicate that accepts equal names only.
FindMatches_ExactOnly(a, sess) == a.name = sess.agentName

\* The predicate of Array.from(healthMap.values()).find(...).
FindMatches(a, sess) ==
    a.name = sess.agentName \/ Includes(sess.agentName, a.name)

\* Index of the entry find returns, 0 when it returns undefined.
FindExisting(map, sess) ==
    IF \E i \in 1..Len(map) : FindMatches(map[i].val, sess)
    THEN CHOOSE i \in 1..Len(map) :
             /\ FindMatches(map[i].val, sess)
             /\ \A j \in 1..(i - 1) : ~FindMatches(map[j].val, sess)
    ELSE 0

\* An enrichment that also stamps the entry with the session log as source.
Enriched_TakesSource(entry, sess) ==
    [lastActivity |-> sess.lastModified, sessionLog |-> sess.logFile,
     ageMs |-> sess.ageMs, source |-> "session-log"] @@ entry

\* The assignments to existing.lastActivity, .sessionLog and .ageMs.
Enriched(entry, sess) ==
    [lastActivity |-> sess.lastModified, sessionLog |-> sess.logFile,
     ageMs |-> sess.ageMs] @@ entry

\* The body of the forEach over the recently active sessions.
EnrichWith(map, sess) ==
    LET k == FindExisting(map, sess)
    IN  IF k # 0
        THEN [map EXCEPT ![k].val = Enriched(map[k].val, sess)]
        ELSE MapSet(map, sess.agentName, SessionEntry(sess))

\* Array.from(healthMap.values()).filter(...).length
Values(map) == [i \in 1..Len(map) |-> map[i].val]
IsActive(a) == a.status = "Active"
IsParked(a) == a.status = "Parked"
IsRecentEntry(a) == "ageMs" \in DOMAIN a /\ Truthy(a.ageMs) /\ a.ageMs < RecencyMs

IsProtocolActive(a) == a.protocolStatus = "Active"
IsProtocolParked(a) == a.protocolStatus = "Parked"

\* A summary that counts the protocol status instead of the status.
HealthOf_CountsProtocolStatus(map) ==
    [agents |-> Values(map),
     summary |-> [total |-> Len(map),
                  active |-> Len(SelectSeq(Values(map), IsProtocolActive)),
                  parked |-> Len(SelectSeq(Values(map), IsProtocolParked)),
                  recentlyActive |-> Len(SelectSeq(Values(map), IsRecentEntry))]]

\* The object getAgentHealth returns (processes and timestamp are passed
\* through and are left out).
HealthOf(map) ==
    [agents |-> Values(map),
     summary |-> [total |-> Len(map),
                  active |-> Len(SelectSeq(Values(map), IsActive)),
                  parked |-> Len(SelectSeq(Values(map), IsParked)),
                  recentlyActive |-> Len(SelectSeq(Values(map), IsRecentEntry))]]

NoHealth == [agents |-> <<>>,
             summary |-> [total |-> 0, active |-> 0, parked |-> 0, recentlyActive |-> 0]]

-----------------------------------------------------------------------------
(* The files getAgentHealth reads, and its steps *)

\* A row is added to the Active Agents table; its id is its position.
WriteProtocolRow(name, status) ==
    /\ apc = "setup"
    /\ Len(protocolRows) < MaxRows
    /\ protocolRows' = Append(protocolRows,
                              [id |-> Len(protocolRows) + 1, name |-> name, status |-> status])
    /\ UNCHANGED <<logFiles, apc, sessionAgents, healthMap, cursor, health,
                   runs, prev, routerVars, fleetVars,
                   serverVars, builderVars>>

\* A session log is written; its file name is its position in the listing.
WriteSessionLog(name, status, mtime) ==
    /\ apc = "setup"
    /\ Len(logFiles) < MaxLogs
    /\ logFiles' = Append(logFiles,
                          [logFile |-> Len(logFiles) + 1, agentName |-> name,
                           status |-> status, mtime |-> mtime])
    /\ UNCHANGED <<protocolRows, apc, sessionAgents, healthMap, cursor, health,
                   runs, prev, routerVars, fleetVars,
                   serverVars, builderVars>>

\* A getAgentHealth whose session records are used up by the first call.
getAgentHealth_ConsumesSessions ==
    /\ apc = "setup" \/ (apc = "done" /\ runs < MaxRuns)
    /\ sessionAgents' = IF runs = 0 THEN getActiveAgentSessions ELSE <<>>
    /\ healthMap' = <<>>
    /\ cursor' = 1
    /\ apc' = "seed"
    /\ prev' = health
    /\ UNCHANGED <<protocolRows, logFiles, health, runs, routerVars, fleetVars,
                   serverVars, builderVars>>

\* getAgentHealth is called, for the first time or again over the same
\* files: the sources are read, the map is a new empty Map.
getAgentHealth ==
    /\ apc = "setup" \/ (apc = "done" /\ runs < MaxRuns)
    /\ sessionAgents' = getActiveAgentSessions
    /\ healthMap' = <<>>
    /\ cursor' = 1
    /\ apc' = "seed"
    /\ prev' = health
    /\ UNCHANGED <<protocolRows, logFiles, health, runs, routerVars, fleetVars,
                   serverVars, builderVars>>

\* protocolAgents.forEach: one row is set into the map.
SeedAgent ==
    /\ apc = "seed"
    /\ cursor <= Len(protocolRows)
    /\ healthMap' = MapSet(healthMap, protocolRows[cursor].name,
                           ProtocolEntry(protocolRows[cursor]))
    /\ cursor' = cursor + 1
    /\ UNCHANGED <<protocolRows, logFiles, apc, sessionAgents, health,
                   runs, prev, routerVars, fleetVars,
                   serverVars, builderVars>>

\* The first forEach is over; the second begins.
SeedDone ==
    /\ apc = "seed"
    /\ cursor > Len(protocolRows)
    /\ apc' = "enrich"
    /\ cursor' = 1
    /\ UNCHANGED <<protocolRows, logFiles, sessionAgents, healthMap, health,
                   runs, prev, routerVars, fleetVars,
                   serverVars, builderVars>>

\* One recently active session is merged into the map.
EnrichSession ==
    /\ apc = "enrich"
    /\ cursor <= Len(RecentSessions)
    /\ healthMap' = EnrichWith(healthMap, RecentSessions[cursor])
    /\ cursor' = cursor + 1
    /\ UNCHANGED <<protocolRows, logFiles, apc, sessionAgents, health,
                   runs, prev, routerVars, fleetVars,
                   serverVars, builderVars>>

\* The return statement: agents and summary are computed from the map.
ReturnHealth ==
    /\ apc = "enrich"
    /\ cursor > Len(RecentSessions)
    /\ health' = HealthOf(healthMap)
    /\ apc' = "done"
    /\ runs' = runs + 1
    /\ UNCHANGED <<protocolRows, logFiles, sessionAgents, healthMap, cursor,
                   prev, routerVars, fleetVars,
                   serverVars, builderVars>>

HealthIdle ==
    /\ protocolRows = <<>>
    /\ logFiles = <<>>
    /\ apc = "setup"
    /\ sessionAgents = <<>>
    /\ healthMap = <<>>
    /\ cursor = 1
    /\ health = NoHealth
    /\ runs = 0
    /\ prev = NoHealth

HealthNext ==
    \/ \E n \in ProtocolNames, st \in ProtocolStatuses : WriteProtocolRow(n, st)
    \/ \E n \in SessionNames, st \in SessionStatuses, m \in MTimes :
           WriteSessionLog(n, st, m)
    \/ getAgentHealth
    \/ SeedAgent
    \/ SeedDone
    \/ EnrichSession
    \/ ReturnHealth

-----------------------------------------------------------------------------
(* src/routes/fleet.js: getAnvilSystem *)

\* JavaScript null where an object is expected, as a tagged value.
NullValue == [t |-> "null"]

\* Largest number of lines of the remote command's output.
MaxLines == 3

\* Lines the remote shell can print, as sequences of symbols: a label with
\* its value, a label whose command printed nothing, other text, and text
\* that mentions a label further right.  "up" is the word the uptime text is
\* cut at, "x" any other text.
LineChoices ==
    { <<"HOSTNAME=", "x">>, <<"HOSTNAME=">>,
      <<"UPTIME=", "x", "up", "x">>, <<"UPTIME=", "x">>,
      <<"DISK=", "x">>, <<"DISK=">>,
      <<"MEM=", "x">>, <<"x", "DISK=", "x", "up">> }

RECURSIVE TextsOfLines(_)
TextsOfLines(n) ==
    IF n = 1 THEN LineChoices
    ELSE { t \o <<"nl">> \o l : t \in TextsOfLines(n - 1), l \in LineChoices }

\* What run(...) can return for the ssh command: null or '' (the empty
\* sequence stands for both, which !info treats alike) or the trimmed output.
Infos == {<<>>} \cup UNION { TextsOfLines(n) : n \in 1..MaxLines }

\* info.match(/LABEL=(.+)/): the first place where the label is followed by
\* at least one character other than a line terminator; 0 when match
\* returns null.
MatchAt(info, label) ==
    LET hits == { i \in 1..(Len(info) - 1) : info[i] = label /\ info[i + 1] # "nl" }
    IN  IF hits = {} THEN 0 ELSE CHOOSE i \in hits : \A j \in hits : i <= j

\* (info.match(/LABEL=(.+)/) || [])[1] || 'unknown'
Field(info, label) ==
    LET i == MatchAt(info, label)
    IN  IF i = 0 THEN <<"unknown">>
        ELSE Before(SubSeq(info, i + 1, Len(info)), {"nl"})

\* uptime.replace(/.*up/, 'up'): everything up to the last "up" of the
\* text becomes "up"; a text without "up" is returned as it is.
ReplaceUp(text) ==
    LET ups == { i \in 1..Len(text) : text[i] = "up" }
    IN  IF ups = {} THEN text
        ELSE LET k == CHOOSE i \in ups : \A j \in ups : j <= i
             IN  <<"up">> \o SubSeq(text, k + 1, Len(text))

\* A parser that gives up when one of the three labels is missing.
ParseAnvilSystem_AllOrNothing(info) ==
    IF info = <<>> \/ \E l \in {"HOSTNAME=", "UPTIME=", "DISK="} : MatchAt(info, l) = 0
    THEN NullValue
    ELSE [t |-> "obj", hostname |-> Field(info, "HOSTNAME="),
          uptime |-> ReplaceUp(Field(info, "UPTIME=")),
          disk |-> Field(info, "DISK=")]

\* The value getAnvilSystem returns when run(...) returned info.
ParseAnvilSystem(info) ==
    IF info = <<>> THEN NullValue
    ELSE [t |-> "obj", hostname |-> Field(info, "HOSTNAME="),
          uptime |-> ReplaceUp(Field(info, "UPTIME=")),
          disk |-> Field(info, "DISK=")]

\* Outputs of the ssh command in a snapshot request: none, the three lines
\* the parser reads, and the lines of hostname and memory only.
SshOutputs ==
    { <<>>,
      <<"HOSTNAME=", "x", "nl", "UPTIME=", "x", "up", "x", "nl", "DISK=", "x">>,
      <<"HOSTNAME=", "x", "nl", "MEM=", "x">> }

\* getAnvilSystem(): the ssh command is run and its output parsed.
getAnvilSystem(info) ==
    /\ bpc = "idle"
    /\ sshInfo = <<>>
    /\ anvilSystem = NullValue
    /\ sshInfo' = info
    /\ anvilSystem' = ParseAnvilSystem(info)
    /\ UNCHANGED <<bpc, probeRes, anvilModels, localModels, litellmModels,
                   handlerValue, tailscaleStatus, routerVars, fleetVars, healthVars, serverVars>>

\* The caller drops the value; the next call starts afresh.
DropAnvilSystem ==
    /\ bpc = "idle"
    /\ sshInfo # <<>>
    /\ sshInfo' = <<>>
    /\ anvilSystem' = NullValue
    /\ UNCHANGED <<bpc, probeRes, anvilModels, localModels, litellmModels,
                   handlerValue, tailscaleStatus, routerVars, fleetVars, healthVars, serverVars>>

AnvilSystemNext ==
    \/ \E info \in Infos : getAnvilSystem(info)
    \/ DropAnvilSystem

-----------------------------------------------------------------------------
(* src/routes/fleet.js: the handlers after their join *)

\* JavaScript undefined where a string is expected.
UndefinedStr == "<undefined>"

\* Documents a target's body can parse to, by name: the Ollama tag list, a
\* status object without a models key, an object whose models is a string,
\* and a tag list whose only item is null.
Docs == {"tags", "status", "modelsText", "modelsNullItem"}

\* Two model items of /api/tags: one with every field, one with the name only.
Llama ==
    [t |-> "obj", name |-> "llama3:8b", size |-> 1610612736,
     family |-> "llama", parameter_size |-> "8B", quantization_level |-> "Q4_0"]
Phi ==
    [t |-> "obj", name |-> "phi3", size |-> 0,
     family |-> UndefinedStr, parameter_size |-> UndefinedStr,
     quantization_level |-> UndefinedStr]

\* data?.models of a parsed document: an array, a string, or undefined.
DocModels(doc) ==
    CASE doc = "tags" -> [t |-> "arr", items |-> <<Llama, Phi>>]
      [] doc = "modelsNullItem" -> [t |-> "arr", items |-> <<NullValue>>]
      [] doc = "modelsText" -> [t |-> "str", items |-> <<>>]
      [] OTHER -> [t |-> "undefined", items |-> <<>>]

\* A resolved probe whose body parsed to the document doc.
OkJson(doc) ==
    [EndResult([res |-> 1, len |-> Payloads[1].len], 200, 7) EXCEPT !.data.doc = doc]

\* Values the four probes can resolve with.
ProbeOutcomes ==
    { OkJson(d) : d \in Docs }
    \cup { EndResult([res |-> 2, len |-> Payloads[2].len], Payloads[2].status, 7),
           ErrorResult(7), TimeoutResult(ProbeTimeoutMs, ProbeTimeoutMs + 2) }

\* The outcomes of the probes other than the first, which the handler reads
\* for ok and latencyMs (and localOllama for its models).
PlainOutcomes == { OkJson("tags"), ErrorResult(7),
                   TimeoutResult(ProbeTimeoutMs, ProbeTimeoutMs + 2) }
LitellmOutcomes == { OkJson("status"), ErrorResult(7),
                     TimeoutResult(ProbeTimeoutMs, ProbeTimeoutMs + 2) }
LocalOutcomes == PlainOutcomes \cup { OkJson("modelsText") }

\* `${(m.size / 1073741824).toFixed(1)}GB` in tenths of a GB, for sizes
\* below 2 GB; 0 stands for the string 'unknown' (m.size falsy).
SizeTenths(size) ==
    IF size = 0 THEN 0 ELSE (size + 53687091) \div 107374182

OrUnknown(v) == IF v = UndefinedStr THEN "unknown" ELSE v

\* The callback of data.models.map for Anvil (full) and for Hearth.
ModelEntry(m, full) ==
    IF full
    THEN [name |-> m.name, size |-> SizeTenths(m.size), family |-> OrUnknown(m.family),
          parameterSize |-> OrUnknown(m.parameter_size),
          quantization |-> OrUnknown(m.quantization_level)]
    ELSE [name |-> m.name, size |-> SizeTenths(m.size), family |-> OrUnknown(m.family)]

\* if (res.ok && res.data?.models) list = res.data.models.map(...): the list,
\* or the TypeError of calling map on a string or reading name of null.
ParseModels(res, full) ==
    IF ~res.ok \/ res.data.raw THEN [threw |-> FALSE, val |-> <<>>]
    ELSE LET models == DocModels(res.data.doc)
         IN  IF models.t = "undefined" THEN [threw |-> FALSE, val |-> <<>>]
             ELSE IF models.t # "arr" \/ \E i \in 1..Len(models.items) : models.items[i].t # "obj"
             THEN [threw |-> TRUE, val |-> <<>>]
             ELSE [threw |-> FALSE,
                   val |-> [i \in 1..Len(models.items) |-> ModelEntry(models.items[i], full)]]

\* anvilModels.reduce((sum, m) => sum + parseFloat(m.size) || 0, 0), in
\* tenths: a size of 'unknown' parses to NaN and the sum becomes 0.
RECURSIVE TotalSize(_, _)
TotalSize(models, sum) ==
    IF Len(models) = 0 THEN sum
    ELSE TotalSize(Tail(models), IF Head(models).size = 0 THEN 0
                                 ELSE sum + Head(models).size)

\* What GET /v1/models can end with: a request error, a timeout, a body that
\* is not JSON, the document null, an object without data, a model list, and
\* a list with an item that has no id.
ListingOutcomes == {"error", "timeout", "garbage", "nullDoc", "noData", "models", "noId"}

UndefinedId == <<UndefinedStr>>

\* Model ids of the gateway, as a prefix and a name: one per prefix the
\* routes handler knows, one without a prefix, and one that carries a known
\* prefix after another one.
GatewayIds ==
    << <<"anvil/", "llama3">>, <<"claude/", "sonnet">>, <<"local/", "phi3">>,
       <<"gpu/", "sdxl">>, <<"embed">>, <<"gpt/", "4o">>, <<"gemini/", "pro">>,
       <<"openrouter/", "claude/", "opus">> >>

\* The value the promise of the /v1/models request resolves with; onFail is
\* [] in GET /api/fleet and null in GET /api/fleet/routes.
ListingIds(o, onFail) ==
    CASE o \in {"error", "timeout", "garbage", "nullDoc"} -> onFail
      [] o = "noData" -> [t |-> "arr", ids |-> <<>>]
      [] o = "models" -> [t |-> "arr", ids |-> GatewayIds]
      [] o = "noId" -> [t |-> "arr", ids |-> <<UndefinedId>>]

EmptyList == [t |-> "arr", ids |-> <<>>]
NullList == [t |-> "null", ids |-> <<>>]

\* What run('tailscale status --json') can return: null, text that is not
\* JSON, the document null, a full status, the status of a node without
\* peers, the status of a logged-out node (Self without addresses, Peer
\* null), and an empty object.
TailscaleOutcomes ==
    {"fail", "garbage", "jsonNull", "full", "alone", "loggedOut", "empty"}

\* The nodes of the documents: HostName, TailscaleIPs, Online, OS, LastSeen.
Node(name, ips, online, os, seen) ==
    [HostName |-> name, TailscaleIPs |-> ips, Online |-> online, OS |-> os,
     LastSeen |-> seen]

\* The value of tailscaleStatus: t is "null" when run returned null, "text"
\* when the output is not JSON, "jsonNull" for the document null, and "obj"
\* for an object, given with its Self (NullValue when it has none) and the
\* values of its Peer map in the order of its keys.
TailscaleStatus(o) ==
    CASE o = "fail" -> [t |-> "null"]
      [] o = "garbage" -> [t |-> "text"]
      [] o = "jsonNull" -> [t |-> "jsonNull"]
      [] o = "full" ->
           [t |-> "obj",
            Self |-> Node("hearth", <<"100.64.0.1">>, TRUE, "macOS", UndefinedStr),
            Peer |-> << Node("anvil", <<"100.116.17.120", "fd7a::1">>, TRUE, "macOS",
                             "2026-01-01T00:00:00Z"),
                        Node("nas", <<"100.93.227.12">>, FALSE, "linux",
                             "2025-12-31T00:00:00Z"),
                        Node("phone", <<>>, FALSE, "iOS", "2025-11-30T00:00:00Z") >>]
      [] o = "alone" ->
           [t |-> "obj",
            Self |-> Node("hearth", <<"100.64.0.1">>, TRUE, "macOS", UndefinedStr),
            Peer |-> <<>>]
      [] o = "loggedOut" ->
           [t |-> "obj",
            Self |-> Node("hearth", <<>>, FALSE, "macOS", UndefinedStr),
            Peer |-> <<>>]
      [] o = "empty" -> [t |-> "obj", Self |-> NullValue, Peer |-> <<>>]

NoStatus == [t |-> "none"]

\* x?.TailscaleIPs?.[0]
FirstIp(node) ==
    IF node = NullValue \/ node.TailscaleIPs = <<>> THEN UndefinedStr
    ELSE node.TailscaleIPs[1]

\* The element for Self: ts.Self?.HostName || 'self', online: true.
SelfDevice(self) ==
    [name |-> IF self = NullValue THEN "self" ELSE self.HostName,
     ip |-> FirstIp(self),
     online |-> TRUE,
     os |-> IF self = NullValue THEN UndefinedStr ELSE self.OS]

\* The element for one value of the Peer map.
PeerDevice(p) ==
    [name |-> p.HostName, ip |-> FirstIp(p), online |-> p.Online, os |-> p.OS,
     lastSeen |-> p.LastSeen]

\* A device list with the peers before Self.
TailscaleDevices_PeersFirst(ts) ==
    IF ts.t # "obj" THEN <<>>
    ELSE [i \in 1..Len(ts.Peer) |-> PeerDevice(ts.Peer[i])] \o <<SelfDevice(ts.Self)>>

\* let tailscaleDevices after the try block: [] when run returned null or
\* JSON.parse or a property read of the document null threw.
TailscaleDevices(ts) ==
    IF ts.t # "obj" THEN <<>>
    ELSE <<SelfDevice(ts.Self)>> \o [i \in 1..Len(ts.Peer) |-> PeerDevice(ts.Peer[i])]

\* The ports lsof is asked about; a port that nobody listens on is 'down'.
LsofPorts == {3000, 3002, 3003}

UpDown(b) == IF b THEN "up" ELSE "down"

\* getHearthSystem(): facts of the local machine.
HearthSystem ==
    [t |-> "obj", hostname |-> <<"hearth">>, uptime |-> <<"up", "x">>, disk |-> <<"x">>]

\* The object literal `fleet` (lines 150-236); the literals that depend on
\* no source are left out of the machine entries, nas and mobile are whole
\* literals.
Compose(res, system, aModels, lModels, lite, devices, listening) ==
    [machines |->
        [hearth |->
            [system |-> HearthSystem,
             services |->
                [dashboard |-> [port |-> 3000, status |-> UpDown(3000 \in listening)],
                 api |-> [port |-> 3001, status |-> "up"],
                 promptBrowser |-> [port |-> 3002, status |-> UpDown(3002 \in listening)],
                 contactVerify |-> [port |-> 3003, status |-> UpDown(3003 \in listening)],
                 litellm |-> [port |-> 4000, status |-> UpDown(res["litellm"].ok),
                              latencyMs |-> res["litellm"].latencyMs],
                 ollama |-> [port |-> 11434, status |-> UpDown(res["localOllama"].ok)]],
             models |-> lModels],
         anvil |->
            [system |-> system,
             connectivity |->
                [lan |-> [reachable |-> res["anvilOllama"].ok,
                          latencyMs |-> res["anvilOllama"].latencyMs],
                 tailscale |-> [reachable |-> res["anvilOllamaTs"].ok,
                                latencyMs |-> res["anvilOllamaTs"].latencyMs]],
             ollama |-> [status |-> UpDown(res["anvilOllama"].ok),
                         models |-> aModels,
                         totalSizeGB |-> TotalSize(aModels, 0)]],
         nas |-> "literal",
         mobile |-> "literal"],
     routing |-> [litellm |-> [status |-> UpDown(res["litellm"].ok), port |-> 4000,
                               models |-> lite.ids]],
     tailscale |-> [devices |-> devices, meshSize |-> Len(devices)]]

\* A test that finds the prefix anywhere in the id.
HasPrefix_Anywhere(m, prefix) == \E i \in 1..Len(m) : m[i] = prefix

\* m.startsWith(prefix) for a model id.
HasPrefix(m, prefix) == Len(m) >= 1 /\ m[1] = prefix

KeepPrefixed(ids, prefixes) ==
    SelectSeq(ids, LAMBDA m : \E pf \in prefixes : HasPrefix(m, pf))

\* The value GET /api/fleet/routes returns for the list `models`.
RoutesValue(models) ==
    IF models.t = "null"
    THEN [status |-> 200, body |-> [status |-> "litellm_unreachable", models |-> <<>>]]
    ELSE [status |-> 200,
          body |-> [status |-> "ok",
                    total |-> Len(models.ids),
                    routes |-> [anvil |-> KeepPrefixed(models.ids, {"anvil/"}),
                                local |-> KeepPrefixed(models.ids, {"local/"}),
                                cloud |-> KeepPrefixed(models.ids,
                                                       {"claude/", "gpt/", "gemini/"}),
                                gpu |-> KeepPrefixed(models.ids, {"gpu/"})],
                    all |-> models.ids,
                    timestamp |-> "now"]]

NoValue == [status |-> 0, body |-> [none |-> TRUE]]

-----------------------------------------------------------------------------
(* src/server.js: the request listener; the vault routes; the async handlers *)

\* The vault routes in registration order, patterns as sequences of symbols
\* (a word of the path is one symbol).  The handler is named by its route.
VaultRoutes ==
    << [method |-> "GET", handler |-> "vaultStats",
        pattern |-> <<"/", "api", "/", "vault", "/", "stats">>],
       [method |-> "GET", handler |-> "vaultNotes",
        pattern |-> <<"/", "api", "/", "vault", "/", "notes">>],
       [method |-> "GET", handler |-> "vaultNote",
        pattern |-> <<"/", "api", "/", "vault", "/", "note">>] >>

\* The session-log route of the agents module.
AgentsRoutes ==
    << [method |-> "GET", handler |-> "session",
        pattern |-> <<"/", "api", "/", "agents", "/", "sessions", "/", ":", "name">>] >>

\* The routes that fleet.js and spend.js register.
AsyncRoutes ==
    << [method |-> "GET", handler |-> "fleet",
        pattern |-> <<"/", "api", "/", "fleet">>],
       [method |-> "GET", handler |-> "fleetRoutes",
        pattern |-> <<"/", "api", "/", "fleet", "/", "routes">>],
       [method |-> "GET", handler |-> "spend",
        pattern |-> <<"/", "api", "/", "spend">>] >>

\* router.routes of the server once every module has registered.
ServerRoutes == VaultRoutes \o AgentsRoutes \o AsyncRoutes

AsyncHandlers == {"fleet", "fleetRoutes", "spend"}

\* The part of s behind the first c (<<>> when there is none).
After(s, c) ==
    IF \A i \in 1..Len(s) : s[i] # c THEN <<>>
    ELSE LET k == CHOOSE i \in 1..Len(s) : s[i] = c /\ \A j \in 1..(i - 1) : s[j] # c
         IN  SubSeq(s, k + 1, Len(s))

\* The percent-decoding of URLSearchParams: "%XY" becomes the character, a
\* "%" that starts no escape stays as it is; nothing is thrown.
RECURSIVE PercentDecode(_)
PercentDecode(s) ==
    IF Len(s) = 0 THEN <<>>
    ELSE IF s[1] = "%" /\ Len(s) >= 3 /\ s[2] \in HexDigits /\ s[3] \in HexDigits
         THEN <<CharOfCode(16 * HexVal(s[2]) + HexVal(s[3]))>>
              \o PercentDecode(SubSeq(s, 4, Len(s)))
         ELSE <<s[1]>> \o PercentDecode(Tail(s))

\* new URL(req.url, 'http://localhost').searchParams.get(key) || ''
SearchParamsGet(url, key) ==
    LET pairs == Split(After(Before(url, {"#"}), "?"), "&")
        hits == { i \in 1..Len(pairs) : PercentDecode(Before(pairs[i], {"="})) = <<key>> }
    IN  IF hits = {} THEN <<>>
        ELSE PercentDecode(After(pairs[CHOOSE i \in hits : \A j \in hits : i <= j], "="))

DotDot == <<".", ".">>

GenericError == [error |-> "Internal server error"]

Returned(status, body, read) ==
    [kind |-> "return", value |-> [status |-> status, body |-> body], read |-> read]
Threw(read) == [kind |-> "throw", value |-> NoValue, read |-> read]

\* GET /api/vault/notes (listNotes looks the directory up on disk).
VaultNotes(url, exists) ==
    LET dir == SearchParamsGet(url, "dir")
    IN  IF Includes(dir, DotDot)
        THEN Returned(400, [error |-> "Invalid directory"], FALSE)
        ELSE Returned(200, [notes |-> IF exists THEN <<"Home">> ELSE <<>>,
                            directory |-> dir], TRUE)

\* GET /api/vault/note (readNote looks the file up on disk).
VaultNote(url, exists) ==
    LET notePath == SearchParamsGet(url, "path")
    IN  IF Includes(notePath, DotDot)
        THEN Returned(400, [error |-> "Invalid path"], FALSE)
        ELSE IF ~exists THEN Returned(404, [error |-> "Note not found"], TRUE)
        ELSE Returned(200, [path |-> notePath, content |-> "text"], TRUE)

\* GET /api/vault/stats: vaultStats walks the vault and throws when the
\* vault directory is not there.
VaultStats(exists) ==
    IF exists THEN Returned(200, [totalNotes |-> 1], TRUE) ELSE Threw(TRUE)

\* GET /api/agents/sessions/:name: a name that holds '..' is refused before
\* the log is looked up.
SessionLog(params, exists) ==
    LET name == params[<<"name">>]
    IN  IF Includes(name, DotDot)
        THEN Returned(400, [error |-> "Invalid path"], FALSE)
        ELSE IF ~exists THEN Returned(404, [error |-> "Session log not found"], TRUE)
        ELSE Returned(200, [name |-> name, content |-> "text"], TRUE)

\* match.handler(req, match.params) for the synchronous handlers.
CallSync(handler, url, params, exists) ==
    CASE handler = "vaultStats" -> VaultStats(exists)
      [] handler = "vaultNotes" -> VaultNotes(url, exists)
      [] handler = "vaultNote" -> VaultNote(url, exists)
      [] handler = "session" -> SessionLog(params, exists)

\* Where an async handler stands when its first await has suspended it.
FirstAwait(handler) ==
    CASE handler = "fleet" -> "probing"
      [] handler = "fleetRoutes" -> "routes"
      [] handler = "spend" -> "spend"

\* Values of the path and directory parameters as a client writes them:
\* with the token literal, escaped in upper and lower case, followed by a
\* malformed escape, the token alone, and two without the token.
ParamValues ==
    { <<".", ".", "/", "private">>,
      <<".", ".", "%", "2", "F", "private", ".", "md">>,
      <<"%", "2", "E", "%", "2", "E", "%", "2", "F", "private">>,
      <<".", ".">>,
      <<"%", "2", "e", "%", "2", "e">>,
      <<".", ".", "%">>,
      <<"a", ".", ".", "b">>,
      <<"Home", ".", "md">>,
      <<"Efforts", "%", "2", "F", "Active">> }

\* Request targets.
ServerUrls ==
    { <<"/", "api", "/", "vault", "/", "notes", "?", "dir", "=">> \o v : v \in ParamValues }
    \cup { <<"/", "api", "/", "vault", "/", "note", "?", "path", "=">> \o v : v \in ParamValues }
    \cup { <<"/", "api", "/", "agents", "/", "sessions", "/">> \o v : v \in ParamValues }
    \cup { <<"/">>,
           <<"/", "api", "/", "vault", "/", "stats">>,
           <<"/", "api", "/", "fleet">>,
           <<"/", "api", "/", "fleet", "/", "routes">>,
           <<"/", "api", "/", "spend">>,
           <<"/", "api", "/", "nothing">> }

ServerMethods == {"GET", "OPTIONS"}

NoRequest == [method |-> "", url |-> <<>>, handler |-> ""]

\* The request listener, from its first line to the end of the function.
\* exists: whether the file or directory a handler looks up is on disk.
Listener(method, url, exists) ==
    LET match == IF method = "OPTIONS" THEN Null
                 ELSE RouterMatch(ServerRoutes, method, url)
        handler == IF match.kind = "match" THEN match.handler ELSE ""
        async == handler \in AsyncHandlers
        out == IF match.kind = "match" /\ ~async
               THEN CallSync(handler, url, match.params, exists)
               ELSE Threw(FALSE)
    IN  /\ spc = "idle"
        /\ sreq' = [method |-> method, url |-> url, handler |-> handler]
        /\ spc' = IF match.kind = "throw" THEN "crashed" ELSE "answered"
        /\ answer' =
              IF method = "OPTIONS" THEN [status |-> 204, body |-> [none |-> TRUE]]
              ELSE IF match.kind = "throw" THEN NoValue
              ELSE IF url \in {<<"/">>, <<"/", "index", ".", "html">>}
                   THEN [status |-> 200, body |-> [html |-> TRUE]]
              ELSE IF match.kind = "null"
                   THEN [status |-> 404, body |-> [error |-> "Not found", path |-> url]]
              ELSE IF async \/ out.kind = "throw"
                   THEN [status |-> 500, body |-> GenericError]
              ELSE out.value
        /\ fsRead' = (match.kind = "match" /\ ~async /\ out.read)
        /\ hpromise' = IF async THEN "pending" ELSE "none"
        /\ bpc' = IF async THEN FirstAwait(handler) ELSE "idle"
        /\ UNCHANGED <<unhandled, probeRes, sshInfo, anvilSystem, anvilModels,
                       localModels, litellmModels, handlerValue,
                       tailscaleStatus, routerVars, fleetVars, healthVars>>

\* The promise of an async handler is rejected: nothing awaits it and
\* nothing catches, so the rejection is unhandled.
Rejected ==
    /\ bpc' = "rejected"
    /\ hpromise' = "rejected"
    /\ unhandled' = TRUE
    /\ handlerValue' = NoValue

\* await Promise.all([...]) resolves with res; the handler runs on to its
\* next await (lines 80-113) or, with LiteLLM down, to line 130.  info is
\* what the ssh command returns if it is run.
FleetJoin(res, info) ==
    LET aModels == ParseModels(res["anvilOllama"], TRUE)
        lModels == ParseModels(res["localOllama"], FALSE)
        ssh == res["anvilOllama"].ok
    IN  /\ bpc = "probing"
        /\ probeRes' = res
        /\ IF aModels.threw \/ lModels.threw
           THEN /\ Rejected
                /\ UNCHANGED <<sshInfo, anvilSystem, anvilModels, localModels,
                               litellmModels>>
           ELSE /\ anvilModels' = aModels.val
                /\ localModels' = lModels.val
                /\ sshInfo' = IF ssh THEN info ELSE <<>>
                /\ anvilSystem' = IF ssh THEN ParseAnvilSystem(info) ELSE NullValue
                /\ litellmModels' = EmptyList
                /\ bpc' = IF res["litellm"].ok THEN "listing" ELSE "compose"
                /\ UNCHANGED <<hpromise, unhandled, handlerValue>>
        /\ UNCHANGED <<sreq, spc, answer, fsRead, tailscaleStatus,
                       routerVars, fleetVars, healthVars>>

\* The promise of the /v1/models request resolves (lines 113-127).
FleetListing(o) ==
    /\ bpc = "listing"
    /\ litellmModels' = ListingIds(o, EmptyList)
    /\ bpc' = "compose"
    /\ UNCHANGED <<probeRes, sshInfo, anvilSystem, anvilModels, localModels,
                   handlerValue, serverVars, tailscaleStatus, routerVars, fleetVars, healthVars>>

\* Lines 130-238: the mesh status is read, the ports are looked up, the
\* snapshot is composed and returned.
FleetCompose(ts, listening) ==
    /\ bpc = "compose"
    /\ tailscaleStatus' = TailscaleStatus(ts)
    /\ handlerValue' =
          [status |-> 200,
           body |-> Compose(probeRes, anvilSystem, anvilModels, localModels,
                            litellmModels, TailscaleDevices(TailscaleStatus(ts)),
                            listening)]
    /\ bpc' = "returned"
    /\ hpromise' = "fulfilled"
    /\ UNCHANGED <<probeRes, sshInfo, anvilSystem, anvilModels, localModels,
                   litellmModels, sreq, spc, answer, fsRead, unhandled,
                   routerVars, fleetVars, healthVars>>

\* GET /api/fleet/routes after its await (lines 282-301); startsWith of an
\* id that is undefined is a TypeError.
FleetRoutes(o) ==
    LET models == ListingIds(o, NullList)
    IN  /\ bpc = "routes"
        /\ litellmModels' = models
        /\ IF \E i \in 1..Len(models.ids) : models.ids[i] = UndefinedId
           THEN Rejected
           ELSE /\ handlerValue' = RoutesValue(models)
                /\ bpc' = "returned"
                /\ hpromise' = "fulfilled"
                /\ UNCHANGED unhandled
        /\ UNCHANGED <<probeRes, sshInfo, anvilSystem, anvilModels, localModels,
                       sreq, spc, answer, fsRead, tailscaleStatus, routerVars, fleetVars, healthVars>>

\* getSpendOverview: opening prompts.db throws inside the async function
\* when the file is missing, which rejects the promise it returned.
SpendOverview(opens) ==
    /\ bpc = "spend"
    /\ IF opens
       THEN /\ handlerValue' = [status |-> 200, body |-> [spend |-> TRUE]]
            /\ bpc' = "returned"
            /\ hpromise' = "fulfilled"
            /\ UNCHANGED unhandled
       ELSE Rejected
    /\ UNCHANGED <<probeRes, sshInfo, anvilSystem, anvilModels, localModels,
                   litellmModels, sreq, spc, answer, fsRead,
                   tailscaleStatus, routerVars, fleetVars, healthVars>>

NoProbeRes == [t \in ProbeNames |-> ErrorResult(0)]

ServerIdle ==
    /\ sreq = NoRequest
    /\ spc = "idle"
    /\ answer = NoValue
    /\ fsRead = FALSE
    /\ hpromise = "none"
    /\ unhandled = FALSE

BuilderIdle ==
    /\ bpc = "idle"
    /\ probeRes = NoProbeRes
    /\ sshInfo = <<>>
    /\ anvilSystem = NullValue
    /\ anvilModels = <<>>
    /\ localModels = <<>>
    /\ litellmModels = EmptyList
    /\ tailscaleStatus = NoStatus
    /\ handlerValue = NoValue

\* The request is over (answered, and its handler's promise settled without
\* an unhandled rejection); the next one finds the listener as at startup.
NextRequest ==
    /\ spc = "answered"
    /\ hpromise \in {"none", "fulfilled"}
    /\ sreq' = NoRequest
    /\ spc' = "idle"
    /\ answer' = NoValue
    /\ fsRead' = FALSE
    /\ hpromise' = "none"
    /\ bpc' = "idle"
    /\ probeRes' = NoProbeRes
    /\ sshInfo' = <<>>
    /\ anvilSystem' = NullValue
    /\ anvilModels' = <<>>
    /\ localModels' = <<>>
    /\ litellmModels' = EmptyList
    /\ handlerValue' = NoValue
    /\ tailscaleStatus' = NoStatus
    /\ UNCHANGED unhandled
    /\ UNCHANGED <<routerVars, fleetVars, healthVars>>

ServerNext ==
    \/ \E m \in ServerMethods, u \in ServerUrls, e \in BOOLEAN : Listener(m, u, e)
    \/ \E a \in ProbeOutcomes, b \in PlainOutcomes, c \in LitellmOutcomes,
          d \in LocalOutcomes, info \in SshOutputs :
           FleetJoin([t \in ProbeNames |->
                         CASE t = "anvilOllama" -> a [] t = "anvilOllamaTs" -> b
                           [] t = "litellm" -> c [] t = "localOllama" -> d], info)
    \/ \E o \in ListingOutcomes : FleetListing(o)
    \/ \E ts \in TailscaleOutcomes, l \in SUBSET LsofPorts : FleetCompose(ts, l)
    \/ \E o \in ListingOutcomes : FleetRoutes(o)
    \/ \E opens \in BOOLEAN : SpendOverview(opens)
    \/ NextRequest

-----------------------------------------------------------------------------
(* Router claims *)

IsPlaceholder(part) == StartsWithChar(part, ":")

\* The decoded text of a path segment (the segment itself when it holds a
\* malformed escape and so has no decoded text).
DecodedSeg(seg) ==
    LET d == decodeURIComponent(seg) IN IF d.ok THEN d.val ELSE seg

\* Route r fits the request as the specification words it: same method,
\* same number of segments, every literal equal to the decoded segment.
FitsDecoded(r, method, url) ==
    LET patternParts == Split(r.pattern, "/")
        pathParts == Split(Pathname(url), "/")
    IN  /\ r.method = method
        /\ Len(patternParts) = Len(pathParts)
        /\ \A i \in 1..Len(patternParts) :
              ~IsPlaceholder(patternParts[i])
                  => patternParts[i] = DecodedSeg(pathParts[i])

\* Route r fits the request structurally: same method, same number of
\* segments, every literal equal to the segment as written in the pathname.
FitsRaw(r, method, url) ==
    LET patternParts == Split(r.pattern, "/")
        pathParts == Split(Pathname(url), "/")
    IN  /\ r.method = method
        /\ Len(patternParts) = Len(pathParts)
        /\ \A i \in 1..Len(patternParts) :
              ~IsPlaceholder(patternParts[i]) => patternParts[i] = pathParts[i]

\* The params object the claims expect of route r: one key per placeholder,
\* holding the decoded segment at the placeholder's position.
PlaceholderIdx(r) ==
    LET patternParts == Split(r.pattern, "/")
    IN  { i \in 1..Len(patternParts) : IsPlaceholder(patternParts[i]) }

FirstFit(method, url) ==
    CHOOSE k \in 1..Len(routes) :
        /\ FitsRaw(routes[k], method, url)
        /\ \A j \in 1..(k - 1) : ~FitsRaw(routes[j], method, url)

\* C1 (as claimed): match returns a non-null {handler, params} exactly when
\* some registered route has the method, the segment count and every literal
\* segment equal to the decoded path segment; otherwise it returns null.
C1_MatchIffFitsDecoded ==
    lastMatch.called =>
        IF \E k \in 1..Len(routes) :
               FitsDecoded(routes[k], lastMatch.method, lastMatch.url)
        THEN lastMatch.result.kind = "match"
        ELSE lastMatch.result.kind = "null"

\* C2 (as claimed): when one or more registered routes structurally match
\* the method and path, match returns the handler and params of the
\* earliest-registered of them.
C2_EarliestRouteReturned ==
    (lastMatch.called
       /\ \E k \in 1..Len(routes) : FitsRaw(routes[k], lastMatch.method, lastMatch.url))
    => /\ lastMatch.result.kind = "match"
       /\ lastMatch.result.handler =
              routes[FirstFit(lastMatch.method, lastMatch.url)].handler

\* C3: whenever match returns non-null, the keys of params are exactly the
\* names of the winning pattern's placeholders and each value is the
\* URL-decoded text of the path segment at the placeholder's position.
C3_ParamsAreDecodedSegments ==
    (lastMatch.called /\ lastMatch.result.kind = "match") =>
        LET r == routes[lastMatch.result.handler]
            patternParts == Split(r.pattern, "/")
            pathParts == Split(Pathname(lastMatch.url), "/")
            params == lastMatch.result.params
        IN  /\ DOMAIN params = { Tail(patternParts[i]) : i \in PlaceholderIdx(r) }
            /\ \A i \in PlaceholderIdx(r) :
                  /\ decodeURIComponent(pathParts[i]).ok
                  /\ params[Tail(patternParts[i])] =
                         decodeURIComponent(pathParts[i]).val

\* C3 witness: GET /a/%61 won by /a/:i, with params.i = "a".
C3_Witness ==
    /\ lastMatch.called
    /\ lastMatch.result.kind = "match"
    /\ lastMatch.url = <<"/", "a", "/", "%", "6", "1">>
    /\ routes[lastMatch.result.handler].pattern = <<"/", "a", "/", ":", "i">>
    /\ lastMatch.result.params[<<"i">>] = <<"a">>

-----------------------------------------------------------------------------
(* Probe claims *)

HasTimeoutFlag(r) == "timeout" \in DOMAIN r /\ r.timeout = TRUE

\* C4 (as claimed): every call to probe resolves on every path: a probe
\* whose connection is closed, so that no further event can reach its
\* listeners, holds a result.
C4_ClosedProbeIsResolved ==
    \A t \in ProbeNames :
        (probes[t].phase = "closed" /\ ~probes[t].errQueued) => probes[t].settled

\* C5: a failed probe has ok=false and carries timeout=true exactly when the
\* failure was a timeout: a connection error gives no timeout flag, a timeout
\* always gives it.
C5_TimeoutFlagIffTimeout ==
    \A t \in ProbeNames :
        /\ probes[t].ended = "error" =>
              /\ probes[t].settled
              /\ probes[t].result.ok = FALSE
              /\ ~HasTimeoutFlag(probes[t].result)
        /\ probes[t].ended = "timeout" =>
              /\ probes[t].settled
              /\ probes[t].result.ok = FALSE
              /\ HasTimeoutFlag(probes[t].result)

\* C5 witness: one probe was refused, another timed out and the error of its
\* destroyed request has been delivered.
C5_Witness ==
    /\ probes["anvilOllama"].ended = "timeout"
    /\ ~probes["anvilOllama"].errQueued
    /\ probes["anvilOllama"].settled
    /\ probes["litellm"].ended = "error"
    /\ probes["litellm"].settled

\* C6: a probe that ends by timeout has latencyMs within 100 ms of the
\* configured timeout, with ok=false and timeout=true.
C6_TimeoutLatencyInBand ==
    \A t \in ProbeNames :
        probes[t].ended = "timeout" =>
            /\ probes[t].result.ok = FALSE
            /\ HasTimeoutFlag(probes[t].result)
            /\ probes[t].result.latencyMs >= ProbeTimeoutMs - 100
            /\ probes[t].result.latencyMs <= ProbeTimeoutMs + 100

\* C6 witness: the tailscale probe timed out while its body was awaited and
\* reports 3000 ms.
C6_Witness ==
    /\ endpoint = "fleet"
    /\ probes["anvilOllamaTs"].ended = "timeout"
    /\ probes["anvilOllamaTs"].result.latencyMs = 3000

\* C7: a response that arrives completely resolves with ok=true and its HTTP
\* status; when the body is not valid JSON, data is the raw body cut to at
\* most 500 characters.
C7_ParseFailureStaysOk ==
    \A t \in ProbeNames :
        probes[t].ended = "end" =>
            LET pl == Payloads[probes[t].res]
                r == probes[t].result
            IN  /\ probes[t].settled
                /\ r.ok = TRUE
                /\ r.status = pl.status
                /\ pl.doc = "" =>
                      /\ r.data.raw
                      /\ r.data.text.res = probes[t].res
                      /\ r.data.text.len = Min(pl.len, 500)
                      /\ r.data.text.len <= 500

\* C7 witness: a 620-character body that is not JSON was received whole and
\* data holds its first 500 characters.
C7_Witness ==
    \E t \in ProbeNames :
        /\ probes[t].ended = "end"
        /\ Payloads[probes[t].res].len = 620
        /\ probes[t].result.ok = TRUE
        /\ probes[t].result.status = 502
        /\ probes[t].result.data.text.len = 500

\* C8: in GET /api/fleet all four probes are started before any is awaited
\* (no listener runs and the handler does not suspend before the fourth
\* call), and the handler is past the join only when all four are resolved.
C8_AllIssuedBeforeAwaitAllResolvedAfter ==
    endpoint = "fleet" =>
        /\ hpc \in {"await", "joined"} =>
              \A t \in ProbeNames : probes[t].phase # "none"
        /\ (\E t \in ProbeNames : probes[t].phase \notin {"none", "open"}) =>
              \A t \in ProbeNames : probes[t].phase # "none"
        /\ hpc = "joined" => \A t \in ProbeNames : probes[t].settled

\* C8 witness: the handler is past the join with one probe timed out,
\* one refused and two answered.
C8_Witness ==
    /\ endpoint = "fleet"
    /\ hpc = "joined"
    /\ probes["anvilOllama"].ended = "timeout"
    /\ probes["anvilOllamaTs"].ended = "error"
    /\ probes["litellm"].ended = "end"
    /\ probes["localOllama"].ended = "end"

\* A step in which probe t fails or times out.
FailsInStep(t) ==
    /\ probes[t].phase \in {"open", "resp"}
    /\ probes'[t].phase = "closed"
    /\ probes'[t].ended \in {"error", "timeout", "aborted"}

\* C9: a probe that fails or times out never cancels, aborts or blocks a
\* sibling: the step that fails it leaves every sibling as it was (the
\* timeout listener destroys its own request only), and a sibling in flight
\* can still receive its own response whatever happened to the others.
C9_NoCrossProbeEffect ==
    /\ [][\A t \in ProbeNames : FailsInStep(t) =>
             \A u \in ProbeNames \ {t} : probes'[u] = probes[u]]_vars
    /\ [](\A u \in ProbeNames :
             (EventLoopFree /\ probes[u].phase = "open") =>
                 ENABLED (\E r \in 1..Len(Payloads) : OnResponse(u, r)))

\* C9 witness: two siblings have failed, one by timeout, and the last
\* probe then received its whole response.
C9_Witness ==
    /\ endpoint = "fleet"
    /\ hpc = "await"
    /\ probes["anvilOllama"].ended = "timeout"
    /\ probes["anvilOllamaTs"].ended = "aborted"
    /\ probes["litellm"].ended = "error"
    /\ probes["localOllama"].phase = "resp"
    /\ probes["localOllama"].got = Payloads[probes["localOllama"].res].len

-----------------------------------------------------------------------------
(* Agent health claims *)

\* The positions of the entries whose name equals agentName or is contained
\* in it.
Candidates(map, agentName) ==
    { i \in 1..Len(map) :
        \/ map[i].val.name = agentName
        \/ \E k \in 0..(Len(agentName) - Len(map[i].val.name)) :
              SubSeq(agentName, k + 1, k + Len(map[i].val.name)) = map[i].val.name }

FirstOf(S) == CHOOSE i \in S : \A j \in S : i <= j

HasSessionData(entry, sess) ==
    /\ {"lastActivity", "sessionLog", "ageMs"} \subseteq DOMAIN entry
    /\ entry.lastActivity = sess.lastModified
    /\ entry.sessionLog = sess.logFile
    /\ entry.ageMs = sess.ageMs

\* The step that merges the recently active session at the cursor, when
\* some entry is a candidate for it.
EnrichesCandidate ==
    /\ apc = "enrich"
    /\ cursor <= Len(RecentSessions)
    /\ cursor' = cursor + 1
    /\ Candidates(healthMap, RecentSessions[cursor].agentName) # {}

\* The protocol table holds the one agent "Watcher" and the only session
\* log, two minutes old, names "Watcher-session".
WatcherExample ==
    /\ Len(protocolRows) = 1
    /\ protocolRows[1].name = <<"Watcher">>
    /\ protocolRows[1].status = "Active"
    /\ Len(logFiles) = 1
    /\ logFiles[1].agentName = <<"Watcher", "-session">>
    /\ logFiles[1].mtime = NowMs - 120000

\* C10: for each recently active session record the fusion enriches the
\* first entry, in insertion order, whose name equals the record's agentName
\* or is a substring of it, and then inserts no entry and changes no other;
\* in the Watcher example summary.total is 1.
C10_FirstCandidateEnrichedNoInsert ==
    /\ [][EnrichesCandidate =>
            LET sess == RecentSessions[cursor]
                m == FirstOf(Candidates(healthMap, sess.agentName))
            IN  /\ Len(healthMap') = Len(healthMap)
                /\ HasSessionData(healthMap'[m].val, sess)
                /\ healthMap'[m].key = healthMap[m].key
                /\ \A i \in 1..Len(healthMap) : i # m => healthMap'[i] = healthMap[i]]_vars
    /\ []((apc = "done" /\ WatcherExample) =>
            /\ health.summary.total = 1
            /\ health.agents[1].name = <<"Watcher">>
            /\ HasSessionData(health.agents[1], sessionAgents[1]))

\* C10 witness: the Watcher example was fused into a single entry that
\* carries the log's age.
C10_Witness ==
    /\ apc = "done"
    /\ WatcherExample
    /\ health.summary.total = 1
    /\ health.agents[1].source = "protocol"
    /\ health.agents[1].ageMs = 120000

\* The last row of the protocol table that carries the name n.
LastRowNamed(n) ==
    protocolRows[CHOOSE i \in 1..Len(protocolRows) :
                    /\ protocolRows[i].name = n
                    /\ \A j \in (i + 1)..Len(protocolRows) : protocolRows[j].name # n]

IsProtocolName(n) == \E i \in 1..Len(protocolRows) : protocolRows[i].name = n

\* Every protocol row has its entry, with source protocol and the status of
\* the row; every other entry comes from a session log.
ProvenanceKept(agents) ==
    /\ \A r \in 1..Len(protocolRows) :
          \E i \in 1..Len(agents) :
              /\ agents[i].name = protocolRows[r].name
              /\ agents[i].source = "protocol"
    /\ \A i \in 1..Len(agents) :
          IF IsProtocolName(agents[i].name)
          THEN /\ agents[i].source = "protocol"
               /\ agents[i].protocolStatus = LastRowNamed(agents[i].name).status
          ELSE /\ agents[i].source = "session-log"
               /\ agents[i].protocolStatus = "null"

\* C11: enrichment never changes provenance: each step of the fusion of
\* session records leaves source and protocolStatus of every entry as they
\* were, so that every entry seeded from the protocol table still has source
\* protocol and the status of its row, and every entry created from a session
\* log has source session-log, in the map and in the returned agents.
C11_ProvenanceKept ==
    /\ [][(apc = "enrich" /\ apc' = "enrich") =>
            /\ Len(healthMap') >= Len(healthMap)
            /\ \A i \in 1..Len(healthMap) :
                  /\ healthMap'[i].val.source = healthMap[i].val.source
                  /\ healthMap'[i].val.protocolStatus = healthMap[i].val.protocolStatus]_vars
    /\ [](apc = "enrich" => ProvenanceKept(Values(healthMap)))
    /\ [](apc = "done" => ProvenanceKept(health.agents))

\* C11 witness: a protocol entry was enriched from a session log and still
\* has source protocol, next to an entry created from another session log.
C11_Witness ==
    /\ apc = "done"
    /\ \E i, j \in 1..Len(health.agents) :
          /\ health.agents[i].source = "protocol"
          /\ "ageMs" \in DOMAIN health.agents[i]
          /\ health.agents[i].protocolStatus = "Parked"
          /\ health.agents[j].source = "session-log"
          /\ health.agents[j].status = "Active"

\* The number of returned agents with the given status.
CountStatus(agents, st) == Cardinality({ i \in 1..Len(agents) : agents[i].status = st })

\* C12: after every fusion summary.total is the number of entries of the
\* mapping, summary.active the number of entries with status "Active",
\* summary.parked the number with status "Parked", and active + parked is at
\* most total.
C12_SummaryCounts ==
    apc = "done" =>
        /\ health.agents = Values(healthMap)
        /\ health.summary.total = Len(healthMap)
        /\ health.summary.active = CountStatus(health.agents, "Active")
        /\ health.summary.parked = CountStatus(health.agents, "Parked")
        /\ health.summary.active + health.summary.parked <= health.summary.total

\* C12 witness: a fusion returned a parked protocol entry, an active one
\* and an active session-log entry.
C12_Witness ==
    /\ apc = "done"
    /\ health.summary.total = 3
    /\ health.summary.parked = 1
    /\ health.summary.active = 2
    /\ \E i \in 1..3 : /\ health.agents[i].status = "Active"
                        /\ health.agents[i].source = "session-log"

\* C13: the fusion is idempotent over its inputs: a second run over the same
\* protocol rows and the same session records returns the same agents, in
\* the same order, and the same summary counts as the run before it.
C13_FusionIdempotent ==
    (apc = "done" /\ runs >= 2) => health = prev

\* C13 witness: a second run over a table and logs that fuse into a protocol
\* entry enriched from a log and a session-log entry returned what the first
\* run returned.
C13_Witness ==
    /\ apc = "done"
    /\ runs = 2
    /\ health = prev
    /\ health.summary.total = 2
    /\ health.summary.recentlyActive = 2
    /\ health.agents[1].source = "protocol"
    /\ health.agents[2].source = "session-log"

\* C14: the fused agent list holds one entry per distinct name: no two
\* entries of the map, or of the returned agents, have the same name.
C14_OneEntryPerName ==
    /\ \A i, j \in 1..Len(healthMap) :
          i # j => healthMap[i].val.name # healthMap[j].val.name
    /\ \A i, j \in 1..Len(health.agents) :
          i # j => health.agents[i].name # health.agents[j].name

\* C14 witness: the protocol table repeats a name and two recent session
\* logs carry the same agentName that matches no protocol entry; the fusion
\* returned two entries.
C14_Witness ==
    /\ apc = "done"
    /\ Len(protocolRows) = 2
    /\ protocolRows[1].name = protocolRows[2].name
    /\ Len(logFiles) = 2
    /\ logFiles[1].agentName = logFiles[2].agentName
    /\ \A i \in 1..2 : logFiles[i].mtime > NowMs - RecencyMs
    /\ health.summary.total = 2
    /\ health.agents[2].source = "session-log"

-----------------------------------------------------------------------------
(* Remote system facts claims *)

Labels == {"HOSTNAME=", "UPTIME=", "DISK="}

FieldOf(sys, label) ==
    CASE label = "HOSTNAME=" -> sys.hostname
      [] label = "UPTIME=" -> sys.uptime
      [] label = "DISK=" -> sys.disk

\* The label occurs at position i of the text with a value behind it on the
\* same line, and nowhere before i with a value.
FirstValueAt(info, label, i) ==
    /\ i < Len(info)
    /\ info[i] = label
    /\ info[i + 1] # "nl"
    /\ \A j \in 1..(i - 1) : ~(info[j] = label /\ info[j + 1] # "nl")

\* The symbols from position i to the end of the line.
LineFrom(info, i) ==
    LET ends == { k \in i..Len(info) : info[k] = "nl" }
        stop == IF ends = {} THEN Len(info) + 1
                ELSE CHOOSE k \in ends : \A m \in ends : k <= m
    IN  SubSeq(info, i, stop - 1)

\* C20: parsing the remote command output extracts hostname, uptime and disk
\* independently: a field whose LABEL= marker is absent from the text is the
\* string "unknown", whatever markers the text lacks besides, while a field
\* whose marker is there with a value is the rest of that line (the uptime
\* from its last "up" on); missing output gives null, never a failure.
C20_FieldsIndependent ==
    /\ sshInfo = <<>> => anvilSystem = NullValue
    /\ sshInfo # <<>> =>
        /\ anvilSystem.t = "obj"
        /\ \A l \in Labels :
            /\ (\A i \in 1..Len(sshInfo) : sshInfo[i] # l) =>
                  FieldOf(anvilSystem, l) = <<"unknown">>
            /\ \A i \in 1..Len(sshInfo) :
                  FirstValueAt(sshInfo, l, i) =>
                      LET rest == LineFrom(sshInfo, i + 1)
                          got == FieldOf(anvilSystem, l)
                      IN  IF l = "UPTIME=" /\ \E k \in 1..Len(rest) : rest[k] = "up"
                          THEN \E k \in 1..Len(rest) :
                                  /\ rest[k] = "up"
                                  /\ \A m \in (k + 1)..Len(rest) : rest[m] # "up"
                                  /\ got = SubSeq(rest, k, Len(rest))
                          ELSE got = rest

\* C20 witness: the output lacks the HOSTNAME= and DISK= markers, and the
\* uptime was still extracted.
C20_Witness ==
    /\ sshInfo # <<>>
    /\ \A i \in 1..Len(sshInfo) : sshInfo[i] \notin {"HOSTNAME=", "DISK="}
    /\ anvilSystem.t = "obj"
    /\ anvilSystem.hostname = <<"unknown">>
    /\ anvilSystem.disk = <<"unknown">>
    /\ anvilSystem.uptime = <<"up", "x">>

-----------------------------------------------------------------------------
(* Fleet snapshot and request boundary claims *)

\* The handler of GET /api/fleet has passed its join.
FleetJoined == sreq.handler = "fleet" /\ bpc \in {"listing", "compose", "returned"}

\* C15: a request for the composed fleet snapshot whose LAN probe of Anvil
\* failed is answered with status 200 and a body in which
\* machines.anvil.system is null and machines.anvil.connectivity.lan.reachable
\* is false, while the sub-trees of the other machines are populated.
C15_LanFailureAnswered200 ==
    (FleetJoined /\ ~probeRes["anvilOllama"].ok) =>
        /\ spc = "answered"
        /\ answer.status = 200
        /\ bpc = "returned" =>
            /\ answer.body.machines.anvil.system = NullValue
            /\ answer.body.machines.anvil.connectivity.lan.reachable = FALSE
            /\ answer.body.machines.hearth.system.t = "obj"
            /\ answer.body.machines.hearth.services.ollama.status
                  = UpDown(probeRes["localOllama"].ok)
            /\ answer.body.machines.nas = "literal"
            /\ answer.body.machines.mobile = "literal"

DeviceKeysDefined(d) ==
    /\ d.name # UndefinedStr
    /\ d.ip # UndefinedStr
    /\ d.os # UndefinedStr

RoutesKeys == {"status", "total", "routes", "all", "timestamp"}

\* C16: in every fleet snapshot, whatever sources failed, every key is
\* present with a value or an explicit marker: the latency of each service,
\* the name, address and os of every mesh device, anvil.system (null when
\* not inspected), and the keys of the body of GET /api/fleet/routes.
C16_EveryKeyPresent ==
    /\ (sreq.handler = "fleet" /\ bpc = "returned") =>
        LET body == handlerValue.body
        IN  /\ body.machines.anvil.system.t \in {"null", "obj"}
            /\ body.machines.hearth.services.litellm.latencyMs \in Nat
            /\ body.machines.anvil.connectivity.lan.latencyMs \in Nat
            /\ body.machines.anvil.connectivity.tailscale.latencyMs \in Nat
            /\ \A i \in 1..Len(body.tailscale.devices) :
                  DeviceKeysDefined(body.tailscale.devices[i])
    /\ (sreq.handler = "fleetRoutes" /\ bpc = "returned") =>
        RoutesKeys \subseteq DOMAIN handlerValue.body

\* C17: the fleet snapshot builder never raises or rejects, whatever the
\* probes, the remote inspection, the model listing and the mesh status
\* return, and when the LAN probe failed the sub-trees of the other sources
\* are what those sources returned.
C17_BuilderNeverRejects ==
    /\ sreq.handler = "fleet" => (bpc # "rejected" /\ hpromise # "rejected")
    /\ (sreq.handler = "fleet" /\ bpc = "returned" /\ ~probeRes["anvilOllama"].ok) =>
        LET body == handlerValue.body
        IN  /\ body.machines.hearth.models = localModels
            /\ body.machines.anvil.connectivity.tailscale.reachable
                  = probeRes["anvilOllamaTs"].ok
            /\ body.routing.litellm.status = UpDown(probeRes["litellm"].ok)
            /\ body.routing.litellm.models = litellmModels.ids

SessionsPrefix == <<"/", "api", "/", "agents", "/", "sessions", "/">>

\* The parameter as the client wrote it: the value of the query parameter,
\* or the segment behind /api/agents/sessions/.
WrittenParam(url) ==
    IF \E i \in 1..Len(url) : url[i] = "?" THEN After(After(url, "?"), "=")
    ELSE IF Len(url) > Len(SessionsPrefix) /\ SubSeq(url, 1, Len(SessionsPrefix)) = SessionsPrefix
    THEN Before(SubSeq(url, Len(SessionsPrefix) + 1, Len(url)), {"/"})
    ELSE <<>>

\* The parameter holds '..', literally or percent-encoded.
HasParentToken(url) == Includes(PercentDecode(WrittenParam(url)), DotDot)

\* C18: a GET request whose dir=, path= or :name parameter contains the
\* parent-directory token '..', written literally or percent-encoded, is
\* answered with status 400 and the filesystem is never read for it.
C18_TraversalAnswered400 ==
    (sreq.method = "GET" /\ HasParentToken(sreq.url)) =>
        /\ spc = "answered"
        /\ answer.status = 400
        /\ ~fsRead

\* C19: an error raised while a request is handled, thrown synchronously by
\* the handler or produced by an asynchronous handler, is caught at the
\* request boundary and answered with the generic error body: no rejection
\* stays unhandled, and the body of every 500 answer is the generic one.
C19_ErrorsCaughtAtBoundary ==
    /\ ~unhandled
    /\ hpromise = "rejected" => (spc = "answered" /\ answer.status = 500)
    /\ (spc = "answered" /\ answer.status = 500) => answer.body = GenericError
    /\ (spc = "answered" /\ sreq.handler = "vaultStats") =>
          answer.status \in {200, 500}

\* The prefixes of each bucket of the routing table.
BucketPrefixes ==
    [anvil |-> {"anvil/"}, local |-> {"local/"}, gpu |-> {"gpu/"},
     cloud |-> {"claude/", "gpt/", "gemini/"}]

BeginsWithOneOf(id, prefixes) == id # <<>> /\ Head(id) \in prefixes

InBucket(body, k, id) == \E i \in 1..Len(body.routes[k]) : body.routes[k][i] = id

RoutesAnswered ==
    /\ sreq.handler = "fleetRoutes"
    /\ bpc = "returned"
    /\ handlerValue.body.status = "ok"

\* C21: in the body GET /api/fleet/routes returns, 'all' is the list of ids
\* the gateway reported and total is its length; an id is in a bucket exactly
\* when it begins with one of the bucket's prefixes, so it is in at most one
\* bucket, and an id that begins with no known prefix is in no bucket.
C21_BucketsByPrefix ==
    RoutesAnswered =>
        LET body == handlerValue.body
            ids == { body.all[i] : i \in 1..Len(body.all) }
        IN  /\ body.all = litellmModels.ids
            /\ body.total = Len(body.all)
            /\ DOMAIN body.routes = DOMAIN BucketPrefixes
            /\ \A k \in DOMAIN body.routes :
                  /\ \A i \in 1..Len(body.routes[k]) : body.routes[k][i] \in ids
                  /\ \A id \in ids :
                        InBucket(body, k, id) <=> BeginsWithOneOf(id, BucketPrefixes[k])
            /\ \A id \in ids :
                  Cardinality({ k \in DOMAIN body.routes : InBucket(body, k, id) }) <= 1

\* The gateway listed an id for every bucket, an id without a known prefix
\* and an id with a known prefix that is not at its start.
C21_Witness ==
    /\ RoutesAnswered
    /\ \A k \in DOMAIN BucketPrefixes : handlerValue.body.routes[k] # <<>>
    /\ Len(handlerValue.body.routes.cloud) = 3
    /\ \E i \in 1..Len(handlerValue.body.all) :
          LET id == handlerValue.body.all[i]
          IN  /\ \E j \in 2..Len(id) : id[j] = "claude/"
              /\ \A k \in DOMAIN BucketPrefixes : ~InBucket(handlerValue.body, k, id)
    /\ handlerValue.body.total = 8

\* C23: Router.match has no side effects: once the server listens, no step
\* changes the route table, so it holds the routes registered at startup in
\* their order, and the result of a match call is the result the same call
\* gives on the table as it is afterwards.
C23_MatchLeavesTableAlone ==
    /\ [][rphase # "startup" => routes' = routes]_vars
    /\ [](lastMatch.called =>
            lastMatch.result = RouterMatch(routes, lastMatch.method, lastMatch.url))

\* A match call returned the second of two registered routes.
C23_Witness ==
    /\ rphase = "serving"
    /\ Len(routes) = 2
    /\ lastMatch.called
    /\ lastMatch.result.kind = "match"
    /\ lastMatch.result.handler = 2

SnapshotReturned == sreq.handler = "fleet" /\ bpc = "returned"

\* C22: when the mesh status parses into a status object, the device list
\* is the self node followed by one element per peer, in the order of the
\* peer map; when the status is unavailable or does not parse (text that is
\* not JSON, or a document that is not an object, whose property read throws
\* inside the same try), the list is empty and meshSize is 0; meshSize is
\* the length of the list in every case.
C22_SelfFirstThenPeers ==
    SnapshotReturned =>
        LET mesh == handlerValue.body.tailscale
            ts == tailscaleStatus
        IN  /\ mesh.meshSize = Len(mesh.devices)
            /\ ts.t = "obj" =>
                  /\ Len(mesh.devices) = 1 + Len(ts.Peer)
                  /\ mesh.devices[1].online = TRUE
                  /\ "lastSeen" \notin DOMAIN mesh.devices[1]
                  /\ mesh.devices[1].name =
                        (IF ts.Self = NullValue THEN "self" ELSE ts.Self.HostName)
                  /\ \A i \in 1..Len(ts.Peer) :
                        /\ mesh.devices[i + 1].name = ts.Peer[i].HostName
                        /\ mesh.devices[i + 1].online = ts.Peer[i].Online
                        /\ mesh.devices[i + 1].lastSeen = ts.Peer[i].LastSeen
            /\ ts.t # "obj" => mesh.devices = <<>> /\ mesh.meshSize = 0

\* A snapshot was returned for a status with a self node and three peers.
C22_Witness ==
    /\ SnapshotReturned
    /\ tailscaleStatus.t = "obj"
    /\ Len(tailscaleStatus.Peer) = 3
    /\ handlerValue.body.tailscale.meshSize = 4
    /\ handlerValue.body.tailscale.devices[1].name = "hearth"

\* The probes the endpoint being served makes.
Configured == { ProbesOf(endpoint)[k] : k \in 1..Len(ProbesOf(endpoint)) }

\* A step that begins a request.
RequestBegins == hpc = "idle" /\ hpc' = "calling"

\* C24: in a fleet snapshot request the remote inspection of Anvil is
\* invoked only in a step taken after the join, with every probe resolved,
\* and only if the LAN probe resolved with ok=true; it is invoked at most
\* once, not at all before the join, and never in a request whose LAN probe
\* failed or timed out.
C24_InspectionAfterJoinIfLanOk ==
    /\ [][(sshCalls' # sshCalls /\ ~RequestBegins) =>
             /\ endpoint = "fleet"
             /\ hpc = "joined"
             /\ \A t \in ProbeNames : probes[t].settled
             /\ probes["anvilOllama"].result.ok = TRUE
             /\ sshCalls = 0
             /\ sshCalls' = 1]_vars
    /\ [](/\ hpc \in {"calling", "await", "joined"} => sshCalls = 0
          /\ (hpc = "resumed" /\ probes["anvilOllama"].result.ok = FALSE) => sshCalls = 0
          /\ endpoint # "fleet" => sshCalls = 0)

\* The LAN probe answered, a sibling timed out, and the inspection ran.
C24_Witness ==
    /\ endpoint = "fleet"
    /\ hpc = "resumed"
    /\ probes["anvilOllama"].result.ok = TRUE
    /\ probes["anvilOllamaTs"].ended = "timeout"
    /\ sshCalls = 1

\* C25: within one request every configured probe is called exactly once:
\* a probe that is closed (failed, timed out or answered) is not opened
\* again before the next request, and a request begins with no probe
\* called and no result held.
C25_EachProbeOncePerRequest ==
    /\ [](\A t \in ProbeNames :
             /\ probes[t].calls <= 1
             /\ (hpc \in {"await", "joined", "resumed"}) =>
                   probes[t].calls = (IF t \in Configured THEN 1 ELSE 0))
    /\ [][\A t \in ProbeNames :
             (probes[t].phase = "closed" /\ ~RequestBegins) =>
                 /\ probes'[t].phase = "closed"
                 /\ probes'[t].calls = probes[t].calls]_vars
    /\ [][RequestBegins => \A t \in ProbeNames : probes'[t] = NoProbe]_vars

\* A snapshot request was served to its return with one probe refused and
\* one timed out, each called once.
C25_Witness ==
    /\ endpoint = "fleet"
    /\ hpc = "idle"
    /\ probes["anvilOllama"].ended = "error"
    /\ probes["litellm"].ended = "timeout"
    /\ \A t \in ProbeNames : probes[t].calls = 1 /\ probes[t].settled

\* The kind of result each of the three events resolves with.
ResultOfEvent(r, event) ==
    CASE event = "end" -> r.ok = TRUE /\ "status" \in DOMAIN r
      [] event = "error" -> r.ok = FALSE /\ ~HasTimeoutFlag(r)
      [] event = "timeout" -> r.ok = FALSE /\ HasTimeoutFlag(r)

\* C29: the first of response end, request error and timeout that occurs
\* on a probe resolves it, and the result never changes afterwards within
\* the request, whatever listener runs later (the error of the request the
\* timeout listener destroyed included): the probe holds the one result of
\* its first event.
C29_FirstEventFixesResult ==
    /\ [][\A t \in ProbeNames :
             (probes[t].settled /\ ~RequestBegins) =>
                 /\ probes'[t].settled
                 /\ probes'[t].result = probes[t].result]_vars
    /\ [](\A t \in ProbeNames :
             /\ probes[t].ended \in {"end", "error", "timeout"} =>
                   /\ probes[t].settled
                   /\ ResultOfEvent(probes[t].result, probes[t].ended)
             /\ probes[t].settled => probes[t].ended \in {"end", "error", "timeout"})

\* A probe timed out, and the error of its destroyed request then reached
\* the 'error' listener.
C29_Witness ==
    \E t \in ProbeNames :
        /\ probes[t].ended = "timeout"
        /\ probes[t].late
        /\ ~probes[t].errQueued
        /\ HasTimeoutFlag(probes[t].result)

\* A step of the forEach over the recently active sessions.
EnrichStep == apc = "enrich" /\ apc' = "enrich" /\ cursor' = cursor + 1

\* No key of the map equals the name or is contained in it.
MatchesNoKey(map, agentName) ==
    \A i \in 1..Len(map) :
        map[i].key # agentName /\ ~Includes(agentName, map[i].key)

\* C26: a recently active session record whose agentName neither equals
\* nor contains a key of the map adds exactly one entry, keyed by its
\* agentName, with source session-log and protocolStatus null, and leaves
\* every existing entry as it was.
C26_UnmatchedSessionInserted ==
    [][(EnrichStep /\ MatchesNoKey(healthMap, RecentSessions[cursor].agentName)) =>
          LET sess == RecentSessions[cursor]
              new == healthMap'[Len(healthMap')]
          IN  /\ sess.isRecentlyActive
              /\ Len(healthMap') = Len(healthMap) + 1
              /\ SubSeq(healthMap', 1, Len(healthMap)) = healthMap
              /\ new.key = sess.agentName
              /\ new.val.name = sess.agentName
              /\ new.val.source = "session-log"
              /\ new.val.protocolStatus = "null"
              /\ new.val.sessionLog = sess.logFile]_vars

\* Two protocol entries are in the map and a session log that matched
\* neither was added behind them.
C26_Witness ==
    /\ apc = "enrich"
    /\ Len(protocolRows) = 2
    /\ Len(healthMap) = 3
    /\ healthMap[3].key = <<"Nova">>
    /\ healthMap[3].val.source = "session-log"
    /\ healthMap[1].val.source = "protocol"
    /\ healthMap[2].val.source = "protocol"

\* The fusion of protocol rows and session records, every record merged.
RECURSIVE SeedAll(_, _)
SeedAll(map, rows) ==
    IF rows = <<>> THEN map
    ELSE SeedAll(MapSet(map, Head(rows).name, ProtocolEntry(Head(rows))), Tail(rows))

RECURSIVE MergeAll(_, _)
MergeAll(map, sessions) ==
    IF sessions = <<>> THEN map
    ELSE MergeAll(EnrichWith(map, Head(sessions)), Tail(sessions))

IsFreshFile(f) == NowMs - f.mtime < RecencyMs

\* What getAgentHealth returns when the directory holds the logs less than
\* an hour old only.
HealthWithoutStaleLogs ==
    LET fresh == SelectSeq(logFiles, IsFreshFile)
        records == SortByLastModified([i \in 1..Len(fresh) |-> SessionRecord(fresh[i])])
    IN  HealthOf(MergeAll(SeedAll(<<>>, protocolRows), records))

\* C27: a session record that is not recently active (ageMs >= 3,600,000)
\* never changes the fusion: the agents and the summary are those of the
\* same files without the logs an hour old or older.
C27_StaleLogsChangeNothing ==
    apc = "done" => health = HealthWithoutStaleLogs

\* A log that is exactly an hour old names an agent of the protocol table,
\* and a younger log was merged; the fusion shows the younger one only.
C27_Witness ==
    /\ apc = "done"
    /\ \E i \in 1..Len(logFiles) :
          /\ NowMs - logFiles[i].mtime = RecencyMs
          /\ \E j \in 1..Len(protocolRows) :
                Includes(logFiles[i].agentName, protocolRows[j].name)
          /\ \A k \in 1..Len(health.agents) :
                "sessionLog" \in DOMAIN health.agents[k] =>
                    health.agents[k].sessionLog # logFiles[i].logFile
    /\ \E k \in 1..Len(health.agents) : "sessionLog" \in DOMAIN health.agents[k]

\* C28: summary.recentlyActive is the number of entries that carry an
\* ageMs below 3,600,000, whatever the value of ageMs from 0 upward;
\* entries without ageMs are not counted.
C28_RecentlyActiveCount ==
    apc = "done" =>
        health.summary.recentlyActive =
            Cardinality({ i \in 1..Len(health.agents) :
                            /\ "ageMs" \in DOMAIN health.agents[i]
                            /\ health.agents[i].ageMs >= 0
                            /\ health.agents[i].ageMs < RecencyMs })

\* Index of the entry of the returned agents that the session record was
\* merged into: the first one its name equals or contains.
MergedInto(sess) ==
    LET hits == { k \in 1..Len(health.agents) : FindMatches(health.agents[k], sess) }
    IN  IF hits = {} THEN 0 ELSE FirstOf(hits)

\* C30: when several recently active logs match the same entry, the entry
\* carries the lastActivity, sessionLog and ageMs of the most recently
\* modified one of them.
C30_LatestLogWins ==
    apc = "done" =>
        \A k \in 1..Len(health.agents) :
            LET merged == { i \in 1..Len(sessionAgents) :
                              /\ sessionAgents[i].isRecentlyActive
                              /\ MergedInto(sessionAgents[i]) = k }
            IN  merged # {} =>
                  \E i \in merged :
                      /\ \A j \in merged : sessionAgents[j].lastModified
                                               <= sessionAgents[i].lastModified
                      /\ health.agents[k].lastActivity = sessionAgents[i].lastModified
                      /\ health.agents[k].sessionLog = sessionAgents[i].logFile
                      /\ health.agents[k].ageMs = sessionAgents[i].ageMs

-----------------------------------------------------------------------------
(* Specifications: the router, the fleet handlers, the agent health fusion *)

\* After construction: an empty route table, no request being served.
Init ==
    /\ RouterInit
    /\ FleetIdle
    /\ HealthIdle
    /\ ServerIdle
    /\ BuilderIdle

SpecRouter == Init /\ [][RouterNext]_vars

SpecFleet == Init /\ [][FleetNext]_vars

SpecHealth == Init /\ [][HealthNext]_vars

SpecAnvilSystem == Init /\ [][AnvilSystemNext]_vars

SpecServer == Init /\ [][ServerNext]_vars

====
